---- MODULE Spec2Model ----
(***************************************************************************)
(* Verification model of the elastic distance kernels (MSM and the naive   *)
(* references of ERP, TWE and DTW) and of the 1-NN routing of the          *)
(* Proximity Forest splitters.                                             *)
(*                                                                         *)
(* Floating point values are modelled by the integers: every integer is a  *)
(* representable value, the next representable value after x is x + 1,     *)
(* PINF is +infinity and QNAN is the quiet NaN.  Sums of the values used   *)
(* here are exact in double precision as well.                             *)
(***************************************************************************)
EXTENDS Integers, Sequences, FiniteSets, TLC

\* ------------------------------------------------------------------------
\* Bounds of the model
\* ------------------------------------------------------------------------
\* Longest series.
MaxLen == 3
\* Largest value held by a series (values are 0..MaxVal).
MaxVal == 1
\* Split/merge cost c of MSM: c is 0 or MaxC.
MaxC == 1
\* Largest finite upper bound handed to a kernel.
MaxCut == 4

\* ------------------------------------------------------------------------
\* Floating point constants
\* ------------------------------------------------------------------------
\* utils::PINF<F>: larger than every finite value of the model.
PINF == 1000000
\* utils::QNAN<F>: compares false with everything; only ever tested by isnan.
QNAN == -1000000

isinf(x) == x = PINF
isnan(x) == x = QNAN

\* std::nextafter(x, toward) on the model's grid of representable values.
nextafter(x, toward) ==
  IF isnan(x) \/ isnan(toward) THEN QNAN
  ELSE IF x = toward THEN toward
  ELSE IF x < toward THEN x + 1
  ELSE x - 1

\* PINF - la, as evaluated in the initialisation of ub.
pinf_minus(la) == IF isnan(la) \/ isinf(la) THEN QNAN ELSE PINF

\* a <= b on floating point values: false as soon as one side is NaN.
fle(a, b) == ~isnan(a) /\ ~isnan(b) /\ a <= b

\* a > b on floating point values.
fgt(a, b) == ~isnan(a) /\ ~isnan(b) /\ a > b

abs(x) == IF x < 0 THEN -x ELSE x
min2(a, b) == IF b < a THEN b ELSE a
min3(a, b, c) == min2(a, min2(b, c))

Values == 0..MaxVal
\* All series of length 0..MaxLen.
Series == UNION {[1..n -> Values] : n \in 0..MaxLen}

\* Element k (0-based, as in the source) of series X.
at(X, k) == X[k + 1]

\* ------------------------------------------------------------------------
\* MSM cost functions
\* ------------------------------------------------------------------------
\* ad1: absolute difference, exponent 1.
ad1(lines, i, cols, j) == abs(at(lines, i) - at(cols, j))

\* Cost of a split/merge step.
msm_cost_ad1(X, xnew_, xi_, Y, yj_, cost) ==
  LET xnew == at(X, xnew_)
      xi == at(X, xi_)
      yj == at(Y, yj_)
  IN IF ((xi <= xnew) /\ (xnew <= yj)) \/ ((yj <= xnew) /\ (xnew <= xi))
     THEN cost
     ELSE cost + min2(abs(xnew - xi), abs(xnew - yj))

msm_lines_ad1(lines, cols, c, i, j) == msm_cost_ad1(lines, i, i - 1, cols, j, c)
msm_cols_ad1(lines, cols, c, i, j) == msm_cost_ad1(cols, j, j - 1, lines, i, c)

MsmEnv(lines, cols, c) == [kind |-> "msm", lines |-> lines, cols |-> cols, c |-> c]

\* ------------------------------------------------------------------------
\* Cost functions of the other measures
\* ------------------------------------------------------------------------
\* Squared difference of two values.
square_dist(a, b) == (a - b) * (a - b)
sqdist(a, b) == (a - b) * (a - b)
absdiff(i, j) == IF i < j THEN j - i ELSE i - j

\* Squared Euclidean distance of two points of dim channels.
RECURSIVE sqedN_acc(_, _, _, _, _)
sqedN_acc(a, aoffset, b, boffset, n) ==
  IF n = 0 THEN 0
  ELSE LET di == at(a, aoffset + n - 1) - at(b, boffset + n - 1)
       IN sqedN_acc(a, aoffset, b, boffset, n - 1) + di * di

sqedN(a, astart, b, bstart, dim) == sqedN_acc(a, astart * dim, b, bstart * dim, dim)

\* TWE: match (diagonal) and warp (line or column) costs.
twe_dist(e, i, j) ==
  IF i = 0 /\ j = 0
  THEN sqedN(e.lines, 0, e.cols, 0, e.dim)
  ELSE sqedN(e.lines, i, e.cols, j, e.dim) + sqedN(e.lines, i - 1, e.cols, j - 1, e.dim)
       + 2 * e.nu * absdiff(i, j)
twe_dist_lines(e, i, j) == sqedN(e.lines, i, e.lines, i - 1, e.dim) + (e.nu + e.lambda)
twe_dist_cols(e, i, j) == sqedN(e.cols, j, e.cols, j - 1, e.dim) + (e.nu + e.lambda)

TweEnv(lines, cols, dim, nu, lambda) ==
  [kind |-> "twe", lines |-> lines, cols |-> cols, dim |-> dim, nu |-> nu, lambda |-> lambda]

\* DTW: every step costs the distance of the two points it aligns.
dtw_dist(e, i, j) == sqedN(e.lines, i, e.cols, j, e.dim)

DtwEnv(lines, cols, dim) == [kind |-> "dtw", lines |-> lines, cols |-> cols, dim |-> dim]

\* The three closures handed to the kernel, for the measure held by e.
dist(e, i, j) ==
  CASE e.kind = "msm" -> ad1(e.lines, i, e.cols, j)
    [] e.kind = "twe" -> twe_dist(e, i, j)
    [] e.kind = "dtw" -> dtw_dist(e, i, j)
dist_lines(e, i, j) ==
  CASE e.kind = "msm" -> msm_lines_ad1(e.lines, e.cols, e.c, i, j)
    [] e.kind = "twe" -> twe_dist_lines(e, i, j)
    [] e.kind = "dtw" -> dtw_dist(e, i, j)
dist_cols(e, i, j) ==
  CASE e.kind = "msm" -> msm_cols_ad1(e.lines, e.cols, e.c, i, j)
    [] e.kind = "twe" -> twe_dist_cols(e, i, j)
    [] e.kind = "dtw" -> dtw_dist(e, i, j)

\* ------------------------------------------------------------------------
\* internal::msm, the EAP kernel
\* ------------------------------------------------------------------------
\* The tightened bound ub: nextafter(cutoff, PINF - la).
ub_init(e, nblines, nbcols, cutoff) ==
  IF nbcols >= 2
  THEN LET i == nblines - 1
           j == nbcols - 1
           la == min3(dist(e, i, j), dist_cols(e, i, j), dist_lines(e, i, j))
       IN nextafter(cutoff, pinf_minus(la))
  ELSE cutoff

\* Local state of the kernel once ub is known: the double buffer is assigned
\* 2*nbcols zeros, c = 0, p = nbcols, every counter is 0.
\* What the code does not store: stamp is the line during which each cell
\* of the buffer was last written (-1: never since the assign), in_range
\* that every index used so far is in [0, 2*nbcols), fresh that every cell
\* read in the previous row was written during the previous line,
\* in_series that no closure was called on the element before the first
\* (the ub block calls dist_lines(nblines-1, nbcols-1) and
\* dist_cols(nblines-1, nbcols-1) when nbcols >= 2), and buffer_v0 the
\* buffer as the caller gave it, remembered up to the end of the first line.
kernel_entry(nblines, nbcols, cutoff, ub) ==
  [nblines |-> nblines, nbcols |-> nbcols, cutoff |-> cutoff, ub |-> ub,
   buffer |-> [x \in 0..(2 * nbcols - 1) |-> 0],
   c |-> 0, p |-> nbcols, i |-> 0, j |-> 0, cost |-> 0,
   next_start |-> 0, prev_pp |-> 0, curr_pp |-> 0,
   returned |-> FALSE, ret |-> 0,
   stamp |-> [x \in 0..(2 * nbcols - 1) |-> -1],
   in_range |-> TRUE, fresh |-> TRUE,
   in_series |-> ~(nbcols >= 2 /\ nblines - 1 = 0),
   buffer_v0 |-> <<>>]

\* A buffer left as it is when it is large enough.
assign_when_smaller(v, n, val) ==
  IF Cardinality(DOMAIN v) >= n THEN v ELSE [x \in 0..(n - 1) |-> val]

\* buffer_v.assign(n, val)
assign(v, n, val) ==
  [x \in 0..(n - 1) |-> val]

\* One cell: s1 is s after the write at index w of the buffer, reads are the
\* indices read in the previous row, li the lines dist_lines was called
\* with and cj the columns dist_cols was called with.
access(s, s1, reads, w, li, cj) ==
  [s1 EXCEPT !.stamp[w] = s.i,
             !.in_range = @ /\ (reads \cup {w}) \subseteq 0..(2 * s.nbcols - 1),
             !.fresh = @ /\ \A x \in reads \cap DOMAIN s.stamp : s.stamp[x] = s.i - 1,
             !.in_series = @ /\ 0 \notin li /\ 0 \notin cj]

\* return v
kreturn(s, v) == [s EXCEPT !.returned = TRUE, !.ret = v]

\* Rest of the first line: a cell only depends on the previous cell.
RECURSIVE first_line_rest(_, _)
first_line_rest(e, s) ==
  IF s.j < s.nbcols
  THEN LET cost == s.cost + dist_cols(e, 0, s.j)
           s1 == access(s, [s EXCEPT !.cost = cost, !.buffer[s.c + s.j] = cost],
                        {}, s.c + s.j, {}, {s.j})
       IN IF fle(cost, s.ub)
          THEN first_line_rest(e, [s1 EXCEPT !.prev_pp = s.j + 1, !.j = s.j + 1])
          ELSE s1
  ELSE s

\* Initialisation: the first line, then ++i.
first_line(e, s) ==
  LET cost == dist(e, 0, 0)
      s1 == access(s, [s EXCEPT !.cost = cost, !.buffer[s.c + 0] = cost],
                   {}, s.c + 0, {}, {})
  IN IF fle(cost, s.ub)
     THEN LET s2 == first_line_rest(e, [s1 EXCEPT !.prev_pp = 1, !.j = 1])
          IN [s2 EXCEPT !.i = s2.i + 1]
     ELSE kreturn(s1, PINF)

\* The row begun without the swap of c and p.
row_begin_without_swap(s) ==
  [s EXCEPT !.curr_pp = s.next_start, !.j = s.next_start]

\* Swap of c and p, curr_pp and j start at next_start.
row_begin(s) ==
  [s EXCEPT !.c = s.p, !.p = s.c, !.curr_pp = s.next_start, !.j = s.next_start]

\* Stage 0 advancing next_start whatever the cost of the cell.
stage0_always_advances(e, s) ==
  LET cost == s.buffer[s.p + s.j] + dist_lines(e, s.i, s.j)
      s1 == access(s, [s EXCEPT !.cost = cost, !.buffer[s.c + s.j] = cost, !.j = s.j + 1],
                   {s.p + s.j}, s.c + s.j, {s.i}, {})
  IN IF fle(cost, s.ub)
     THEN [s1 EXCEPT !.curr_pp = s.j + 1, !.next_start = s.next_start + 1]
     ELSE [s1 EXCEPT !.next_start = s.next_start + 1]

\* Stage 0: first column of the row, can only look up.
stage0(e, s) ==
  LET cost == s.buffer[s.p + s.j] + dist_lines(e, s.i, s.j)
      s1 == access(s, [s EXCEPT !.cost = cost, !.buffer[s.c + s.j] = cost, !.j = s.j + 1],
                   {s.p + s.j}, s.c + s.j, {s.i}, {})
  IN IF fle(cost, s.ub)
     THEN [s1 EXCEPT !.curr_pp = s.j + 1]
     ELSE [s1 EXCEPT !.next_start = s.next_start + 1]

\* Stage 1: up to the previous pruning point while advancing next_start.
RECURSIVE stage1(_, _)
stage1(e, s) ==
  IF s.j = s.next_start /\ s.j < s.prev_pp
  THEN LET cost == min2(s.buffer[s.p + s.j - 1] + dist(e, s.i, s.j),
                        s.buffer[s.p + s.j] + dist_lines(e, s.i, s.j))
           s1 == access(s, [s EXCEPT !.cost = cost, !.buffer[s.c + s.j] = cost, !.j = s.j + 1],
                        {s.p + s.j - 1, s.p + s.j}, s.c + s.j, {s.i}, {})
       IN IF fle(cost, s.ub)
          THEN stage1(e, [s1 EXCEPT !.curr_pp = s.j + 1])
          ELSE stage1(e, [s1 EXCEPT !.next_start = s.next_start + 1])
  ELSE s

\* Stage 2 without the dependency on the cell above.
RECURSIVE stage2_no_top(_, _)
stage2_no_top(e, s) ==
  IF s.j < s.prev_pp
  THEN LET cost == min2(s.buffer[s.p + s.j - 1] + dist(e, s.i, s.j),
                        s.cost + dist_cols(e, s.i, s.j))
           s1 == access(s, [s EXCEPT !.cost = cost, !.buffer[s.c + s.j] = cost, !.j = s.j + 1],
                        {s.p + s.j - 1}, s.c + s.j, {}, {s.j})
       IN IF fle(cost, s.ub)
          THEN stage2_no_top(e, [s1 EXCEPT !.curr_pp = s.j + 1])
          ELSE stage2_no_top(e, s1)
  ELSE s

\* Stage 2: up to the previous pruning point without advancing next_start.
RECURSIVE stage2(_, _)
stage2(e, s) ==
  IF s.j < s.prev_pp
  THEN LET cost == min3(s.buffer[s.p + s.j - 1] + dist(e, s.i, s.j),
                        s.cost + dist_cols(e, s.i, s.j),
                        s.buffer[s.p + s.j] + dist_lines(e, s.i, s.j))
           s1 == access(s, [s EXCEPT !.cost = cost, !.buffer[s.c + s.j] = cost, !.j = s.j + 1],
                        {s.p + s.j - 1, s.p + s.j}, s.c + s.j, {s.i}, {s.j})
       IN IF fle(cost, s.ub)
          THEN stage2(e, [s1 EXCEPT !.curr_pp = s.j + 1])
          ELSE stage2(e, s1)
  ELSE s

\* Stage 3 going on to the next cell when the only cell of case 1 is > ub.
stage3_goes_on(e, s) ==
  IF s.j < s.nbcols
  THEN IF s.j = s.next_start
       THEN LET cost == s.buffer[s.p + s.j - 1] + dist(e, s.i, s.j)
                s1 == access(s, [s EXCEPT !.cost = cost, !.buffer[s.c + s.j] = cost],
                             {s.p + s.j - 1}, s.c + s.j, {}, {})
            IN IF fle(cost, s.ub)
               THEN [s1 EXCEPT !.curr_pp = s.j + 1, !.j = s.j + 1]
               ELSE [s1 EXCEPT !.j = s.j + 1]
       ELSE LET cost == min2(s.buffer[s.p + s.j - 1] + dist(e, s.i, s.j),
                             s.cost + dist_cols(e, s.i, s.j))
                s1 == access(s, [s EXCEPT !.cost = cost, !.buffer[s.c + s.j] = cost, !.j = s.j + 1],
                             {s.p + s.j - 1}, s.c + s.j, {}, {s.j})
            IN IF fle(cost, s.ub)
               THEN [s1 EXCEPT !.curr_pp = s.j + 1]
               ELSE s1
  ELSE IF s.j = s.next_start
       THEN IF fgt(s.cost, s.cutoff)
            THEN kreturn(s, PINF)
            ELSE [s EXCEPT !.next_start = s.nbcols - 1]
       ELSE s

\* Stage 3 abandoning on the last cell as on every other one.
stage3_abandons(e, s) ==
  IF s.j < s.nbcols
  THEN IF s.j = s.next_start
       THEN LET cost == s.buffer[s.p + s.j - 1] + dist(e, s.i, s.j)
                s1 == access(s, [s EXCEPT !.cost = cost, !.buffer[s.c + s.j] = cost],
                             {s.p + s.j - 1}, s.c + s.j, {}, {})
            IN IF fle(cost, s.ub)
               THEN [s1 EXCEPT !.curr_pp = s.j + 1, !.j = s.j + 1]
               ELSE kreturn(s1, PINF)
       ELSE LET cost == min2(s.buffer[s.p + s.j - 1] + dist(e, s.i, s.j),
                             s.cost + dist_cols(e, s.i, s.j))
                s1 == access(s, [s EXCEPT !.cost = cost, !.buffer[s.c + s.j] = cost, !.j = s.j + 1],
                             {s.p + s.j - 1}, s.c + s.j, {}, {s.j})
            IN IF fle(cost, s.ub)
               THEN [s1 EXCEPT !.curr_pp = s.j + 1]
               ELSE s1
  ELSE IF s.j = s.next_start
       THEN IF fgt(s.cost, s.cutoff)
            THEN kreturn(s, PINF)
            ELSE [s EXCEPT !.next_start = s.nbcols - 1]
       ELSE s

\* Stage 3: at the previous pruning point.
stage3(e, s) ==
  IF s.j < s.nbcols
  THEN IF s.j = s.next_start
       THEN LET cost == s.buffer[s.p + s.j - 1] + dist(e, s.i, s.j)
                s1 == access(s, [s EXCEPT !.cost = cost, !.buffer[s.c + s.j] = cost],
                             {s.p + s.j - 1}, s.c + s.j, {}, {})
            IN IF fle(cost, s.ub)
               THEN [s1 EXCEPT !.curr_pp = s.j + 1, !.j = s.j + 1]
               ELSE IF s.i = s.nblines - 1 /\ s.j = s.nbcols - 1 /\ fle(cost, s.cutoff)
                    THEN kreturn(s1, cost)
                    ELSE kreturn(s1, PINF)
       ELSE LET cost == min2(s.buffer[s.p + s.j - 1] + dist(e, s.i, s.j),
                             s.cost + dist_cols(e, s.i, s.j))
                s1 == access(s, [s EXCEPT !.cost = cost, !.buffer[s.c + s.j] = cost, !.j = s.j + 1],
                             {s.p + s.j - 1}, s.c + s.j, {}, {s.j})
            IN IF fle(cost, s.ub)
               THEN [s1 EXCEPT !.curr_pp = s.j + 1]
               ELSE s1
  ELSE IF s.j = s.next_start
       THEN IF fgt(s.cost, s.cutoff)
            THEN kreturn(s, PINF)
            ELSE [s EXCEPT !.next_start = s.nbcols - 1]
       ELSE s

\* Stage 4: after the previous pruning point, only the previous cell.
RECURSIVE stage4(_, _)
stage4(e, s) ==
  IF s.j = s.curr_pp /\ s.j < s.nbcols
  THEN LET cost == s.cost + dist_cols(e, s.i, s.j)
           s1 == access(s, [s EXCEPT !.cost = cost, !.buffer[s.c + s.j] = cost, !.j = s.j + 1],
                        {}, s.c + s.j, {}, {s.j})
       IN IF fle(cost, s.ub)
          THEN stage4(e, [s1 EXCEPT !.curr_pp = s.curr_pp + 1])
          ELSE stage4(e, s1)
  ELSE s

\* One iteration of the main loop, ++i included.
main_row(e, s) ==
  LET s3 == stage3(e, stage2(e, stage1(e, stage0(e, row_begin(s)))))
  IN IF s3.returned
     THEN s3
     ELSE LET s4 == stage4(e, s3)
          IN [s4 EXCEPT !.prev_pp = s4.curr_pp, !.i = s4.i + 1]

\* Finalisation with a strict comparison to the cutoff.
finalise_strict(s) ==
  IF s.j = s.nbcols /\ s.cost < s.cutoff
  THEN kreturn(s, s.cost)
  ELSE kreturn(s, PINF)

\* Finalisation: the last alignment must be reached and be <= cutoff.
finalise(s) ==
  IF s.j = s.nbcols /\ fle(s.cost, s.cutoff)
  THEN kreturn(s, s.cost)
  ELSE kreturn(s, PINF)

RECURSIVE main_loop(_, _)
main_loop(e, s) ==
  IF s.returned THEN s
  ELSE IF s.i < s.nblines THEN main_loop(e, main_row(e, s))
  ELSE finalise(s)

\* internal::msm as a function of its arguments (0 < nbcols <= nblines).
internal_msm(e, nblines, nbcols, cutoff) ==
  main_loop(e, first_line(e,
    kernel_entry(nblines, nbcols, cutoff, ub_init(e, nblines, nbcols, cutoff)))).ret

\* ------------------------------------------------------------------------
\* msm, the public entry point on lengths and closures
\* ------------------------------------------------------------------------
\* Sum of dist(i, i) for i in 0..m-1: the diagonal.
RECURSIVE cover_diagonal(_, _)
cover_diagonal(e, m) ==
  IF m = 0 THEN 0 ELSE cover_diagonal(e, m - 1) + dist(e, m - 1, m - 1)

\* Fewer lines than columns: the last line, columns from..nbcols-1.
RECURSIVE complete_last_line(_, _, _, _)
complete_last_line(e, nblines, from, nbcols) ==
  IF nbcols <= from THEN 0
  ELSE complete_last_line(e, nblines, from, nbcols - 1) + dist_cols(e, nblines - 1, nbcols - 1)

\* Fewer columns than lines: the last column, lines from..nblines-1.
RECURSIVE complete_last_col(_, _, _, _)
complete_last_col(e, nbcols, from, nblines) ==
  IF nblines <= from THEN 0
  ELSE complete_last_col(e, nbcols, from, nblines - 1) + dist_lines(e, nblines - 1, nbcols - 1)

\* The cutoff point computed using the diagonal.
diagonal_cutoff(e, nblines, nbcols) ==
  LET m == min2(nblines, nbcols)
  IN cover_diagonal(e, m)
     + (IF nblines < nbcols THEN complete_last_line(e, nblines, nblines, nbcols)
        ELSE IF nbcols < nblines THEN complete_last_col(e, nbcols, nbcols, nblines)
        ELSE 0)

\* The cutoff of the diagonal whatever the upper bound.
msm_cutoff_diagonal(e, nblines, nbcols, ub) ==
  IF isnan(ub) THEN PINF ELSE diagonal_cutoff(e, nblines, nbcols)

\* The cutoff handed to internal::msm for the upper bound ub.
msm_cutoff(e, nblines, nbcols, ub) ==
  IF isinf(ub) THEN diagonal_cutoff(e, nblines, nbcols)
  ELSE IF isnan(ub) THEN PINF
  ELSE ub

\* msm giving 0 as soon as one of the lengths is zero.
msm_empty_is_zero(e, nblines, nbcols, ub) ==
  IF nblines = 0 \/ nbcols = 0 THEN 0
  ELSE internal_msm(e, nblines, nbcols, msm_cutoff(e, nblines, nbcols, ub))

\* if (nblines==0 && nbcols==0) { return 0; }
\* else if ((nblines==0)!=(nbcols==0)) { return INF; }
\* else: the cutoff and internal::msm.
msm(e, nblines, nbcols, ub) ==
  IF nblines = 0 /\ nbcols = 0 THEN 0
  ELSE IF (nblines = 0) # (nbcols = 0) THEN PINF
  ELSE internal_msm(e, nblines, nbcols, msm_cutoff(e, nblines, nbcols, ub))

\* Overload for univariate vectors using ad1.
univariate_msm(lines, cols, c, ub) ==
  msm(MsmEnv(lines, cols, c), Len(lines), Len(cols), ub)

\* ------------------------------------------------------------------------
\* Naive full-matrix dynamic program over the same three closures
\* ------------------------------------------------------------------------
\* A matrix of nr rows and nc columns filled line by line, from left to
\* right, the cell (i, j) computed from the cells filled before it.
fill_matrix(nr, nc, cell(_, _, _)) ==
  LET filled[n \in 0..(nr * nc)] ==
        IF n = 0 THEN [i \in 0..(nr - 1), j \in 0..(nc - 1) |-> 0]
        ELSE LET M == filled[n - 1]
                 i == (n - 1) \div nc
                 j == (n - 1) % nc
             IN [M EXCEPT ![i, j] = cell(M, i, j)]
  IN filled[nr * nc]

naive_dp(e, nblines, nbcols) ==
  LET cell(M, i, j) ==
        IF i = 0 /\ j = 0 THEN dist(e, 0, 0)
        ELSE IF i = 0 THEN M[0, j - 1] + dist_cols(e, 0, j)
        ELSE IF j = 0 THEN M[i - 1, 0] + dist_lines(e, i, 0)
        ELSE min3(M[i - 1, j - 1] + dist(e, i, j),
                  M[i, j - 1] + dist_cols(e, i, j),
                  M[i - 1, j] + dist_lines(e, i, j))
  IN fill_matrix(nblines, nbcols, cell)[nblines - 1, nbcols - 1]

\* ------------------------------------------------------------------------
\* Reference implementations of the tests
\* ------------------------------------------------------------------------
\* a + b with +inf absorbing.
fadd(a, b) == IF isinf(a) \/ isinf(b) THEN PINF ELSE a + b
max2(a, b) == IF a < b THEN b ELSE a

\* Naive ERP with a window.
erp_matrix(series1, series2, gValue, w0) ==
  LET length1 == Len(series1)
      length2 == Len(series2)
  IN IF length1 = 0 /\ length2 = 0 THEN 0
     ELSE IF length1 = 0 /\ length2 # 0 THEN PINF
     ELSE IF length1 # 0 /\ length2 = 0 THEN PINF
     ELSE LET cols == IF length1 < length2 THEN series1 ELSE series2
              lines == IF length1 < length2 THEN series2 ELSE series1
              nc == min2(length1, length2)
              nl == max2(length1, length2)
              w == IF w0 > nl THEN nl ELSE w0
          IN IF nl - nc > w THEN PINF
             ELSE LET cell(matrix, i, j) ==
                        IF i = 0 /\ j = 0 THEN 0
                        ELSE IF i = 0
                        THEN fadd(matrix[0, j - 1], square_dist(gValue, at(cols, j - 1)))
                        ELSE IF j = 0
                        THEN fadd(matrix[i - 1, 0], square_dist(at(lines, i - 1), gValue))
                        ELSE IF max2(i - w, 1) <= j /\ j < min2(i + w + 1, nc + 1)
                        THEN min2(
                               fadd(matrix[i, j - 1], square_dist(gValue, at(cols, j - 1))),
                               min2(fadd(matrix[i - 1, j - 1],
                                         square_dist(at(lines, i - 1), at(cols, j - 1))),
                                    fadd(matrix[i - 1, j], square_dist(at(lines, i - 1), gValue))))
                        ELSE PINF
                  IN fill_matrix(nl + 1, nc + 1, cell)[nl, nc]

\* Naive univariate TWE.
twe_matrix_uni(s1, s2, nu, lambda) ==
  LET length1 == Len(s1)
      length2 == Len(s2)
      nu_lambda == nu + lambda
      nu2 == 2 * nu
  IN IF length1 = 0 /\ length2 = 0 THEN 0
     ELSE IF length1 = 0 /\ length2 # 0 THEN PINF
     ELSE IF length1 # 0 /\ length2 = 0 THEN PINF
     ELSE LET cell(matrix, i, j) ==
                IF i = 0 /\ j = 0 THEN sqdist(at(s1, 0), at(s2, 0))
                ELSE IF j = 0
                THEN matrix[i - 1, 0] + sqdist(at(s1, i), at(s1, i - 1)) + nu_lambda
                ELSE IF i = 0
                THEN matrix[0, j - 1] + sqdist(at(s2, j), at(s2, j - 1)) + nu_lambda
                ELSE LET t == matrix[i - 1, j] + sqdist(at(s1, i), at(s1, i - 1)) + nu_lambda
                         d == matrix[i - 1, j - 1] + sqdist(at(s1, i), at(s2, j))
                              + sqdist(at(s1, i - 1), at(s2, j - 1)) + nu2 * absdiff(i, j)
                         p == matrix[i, j - 1] + sqdist(at(s2, j), at(s2, j - 1)) + nu_lambda
                     IN min3(t, d, p)
          IN fill_matrix(length1, length2, cell)[length1 - 1, length2 - 1]

\* Naive multivariate TWE.
twe_matrix(s1, s2, dim, nu, lambda) ==
  LET length1 == Len(s1) \div dim
      length2 == Len(s2) \div dim
      nu_lambda == nu + lambda
      nu2 == 2 * nu
  IN IF length1 = 0 /\ length2 = 0 THEN 0
     ELSE IF length1 = 0 /\ length2 # 0 THEN PINF
     ELSE IF length1 # 0 /\ length2 = 0 THEN PINF
     ELSE LET cell(matrix, i, j) ==
                IF i = 0 /\ j = 0 THEN sqedN(s1, 0, s2, 0, dim)
                ELSE IF j = 0
                THEN matrix[i - 1, 0] + sqedN(s1, i, s1, i - 1, dim) + nu_lambda
                ELSE IF i = 0
                THEN matrix[0, j - 1] + sqedN(s2, j, s2, j - 1, dim) + nu_lambda
                ELSE LET t == matrix[i - 1, j] + sqedN(s1, i, s1, i - 1, dim) + nu_lambda
                         d == matrix[i - 1, j - 1] + sqedN(s1, i, s2, j, dim)
                              + sqedN(s1, i - 1, s2, j - 1, dim) + nu2 * absdiff(i, j)
                         p == matrix[i, j - 1] + sqedN(s2, j, s2, j - 1, dim) + nu_lambda
                     IN min3(t, d, p)
          IN fill_matrix(length1, length2, cell)[length1 - 1, length2 - 1]

\* Naive multivariate DTW: full matrix with borders at +inf.
dtw_matrix(a, b, dim) ==
  LET la == Len(a) \div dim
      lb == Len(b) \div dim
  IN IF la = 0 /\ lb = 0 THEN 0
     ELSE IF la = 0 /\ lb # 0 THEN PINF
     ELSE IF la # 0 /\ lb = 0 THEN PINF
     ELSE LET cell(matrix, i, j) ==
                IF i = 0 /\ j = 0 THEN 0
                ELSE IF i = 0 \/ j = 0 THEN PINF
                ELSE LET prev == matrix[i, j - 1]
                         diag == matrix[i - 1, j - 1]
                         top == matrix[i - 1, j]
                     IN fadd(min2(prev, min2(diag, top)), sqedN(a, i - 1, b, j - 1, dim))
          IN fill_matrix(la + 1, lb + 1, cell)[la, lb]

\* ------------------------------------------------------------------------
\* The kernels of the other measures
\* ------------------------------------------------------------------------
\* The result of a kernel whose dynamic program has the value v, for the
\* upper bound ub: +inf and NaN give v, a finite bound gives v when
\* v <= ub and +inf otherwise.
within_bound(v, ub) ==
  IF isinf(ub) \/ isnan(ub) THEN v
  ELSE IF v <= ub THEN v ELSE PINF

\* The bound of the skeleton tightened by the cost of the diagonal step into
\* the last cell, whether or not it is the best one.
ub_diagonal_step(e, nblines, nbcols, cutoff) ==
  IF nbcols >= 2
  THEN IF isinf(cutoff) THEN PINF
       ELSE nextafter(cutoff, PINF) - dist(e, nblines - 1, nbcols - 1)
  ELSE cutoff

\* The tightened bound of the skeleton: nextafter(UB, +inf) minus the cost
\* of the best last step, the smallest of the three steps into the last
\* cell; +inf stays +inf.
ub_tightened(e, nblines, nbcols, cutoff) ==
  IF nbcols >= 2
  THEN LET i == nblines - 1
           j == nbcols - 1
           la == min3(dist(e, i, j), dist_cols(e, i, j), dist_lines(e, i, j))
       IN IF isinf(cutoff) THEN PINF ELSE nextafter(cutoff, PINF) - la
  ELSE cutoff

\* The shared skeleton under the tightened bound, 0 < nbcols <= nblines:
\* the state the kernel ends in.
eap_kernel(e, nblines, nbcols, cutoff) ==
  main_loop(e, first_line(e,
    kernel_entry(nblines, nbcols, cutoff, ub_tightened(e, nblines, nbcols, cutoff))))

\* The skeleton contract: 0 when both lengths are zero, +inf when exactly
\* one is; the cutoff is the diagonal walk for the bound +inf, +inf for NaN
\* and the bound otherwise.
eap(e, nblines, nbcols, ub) ==
  IF nblines = 0 /\ nbcols = 0 THEN 0
  ELSE IF (nblines = 0) # (nbcols = 0) THEN PINF
  ELSE eap_kernel(e, nblines, nbcols, msm_cutoff(e, nblines, nbcols, ub)).ret

\* The kernel left cells of the matrix out: it advanced next_start or it
\* abandoned before the last line.
eap_pruned(e, nblines, nbcols, ub) ==
  /\ nblines # 0 /\ nbcols # 0
  /\ LET s == eap_kernel(e, nblines, nbcols, msm_cutoff(e, nblines, nbcols, ub))
     IN s.next_start > 0 \/ s.i < s.nblines

\* TWE: the shared skeleton on the TWE costs, lines being the longer series.
twe_env(s1, s2, dim, nu, lambda) ==
  IF Len(s1) \div dim < Len(s2) \div dim
  THEN TweEnv(s2, s1, dim, nu, lambda)
  ELSE TweEnv(s1, s2, dim, nu, lambda)

twe(s1, s2, dim, nu, lambda, ub) ==
  LET e == twe_env(s1, s2, dim, nu, lambda)
  IN eap(e, Len(e.lines) \div dim, Len(e.cols) \div dim, ub)

\* DTW without window: the shared skeleton on the DTW costs.
dtw_env(s1, s2, dim) ==
  IF Len(s1) \div dim < Len(s2) \div dim
  THEN DtwEnv(s2, s1, dim)
  ELSE DtwEnv(s1, s2, dim)

dtw(s1, s2, dim, ub) ==
  LET e == dtw_env(s1, s2, dim)
  IN eap(e, Len(e.lines) \div dim, Len(e.cols) \div dim, ub)

\* ------------------------------------------------------------------------
\* ERP: the skeleton with a border line, a border column and a band
\* ------------------------------------------------------------------------
\* The matrix has the lines 0..nblines and the columns 0..nbcols: the line
\* 0 and the column 0 are the borders, the sums of the gap costs; the cell
\* (i, j) aligns lines[i-1] and cols[j-1].
ErpEnv(lines, cols, gv, w) ==
  [lines |-> lines, cols |-> cols, gv |-> gv, w |-> w]

erp_dist(e, i, j) == square_dist(at(e.lines, i - 1), at(e.cols, j - 1))
erp_gv_lines(e, i) == square_dist(at(e.lines, i - 1), e.gv)
erp_gv_cols(e, j) == square_dist(at(e.cols, j - 1), e.gv)

\* The band of the line i: the columns from erp_start(i) up to, and not
\* including, erp_stop(i). The border column is read up to the line w + 1
\* and the border line up to the column w + 1.
erp_start(e, i) == IF i <= e.w + 1 THEN 0 ELSE i - e.w
erp_stop(e, i, nbcols) == min2(i + e.w + 1, nbcols + 1)

\* The bound of ERP tightened by the largest of the three last steps.
erp_ub_largest_step(e, nblines, nbcols, cutoff) ==
  LET la == max2(erp_dist(e, nblines, nbcols),
                 max2(erp_gv_cols(e, nbcols), erp_gv_lines(e, nblines)))
  IN IF isinf(cutoff) THEN PINF ELSE nextafter(cutoff, PINF) - la

\* The tightened bound of ERP.
erp_ub(e, nblines, nbcols, cutoff) ==
  LET la == min3(erp_dist(e, nblines, nbcols), erp_gv_cols(e, nbcols),
                 erp_gv_lines(e, nblines))
  IN IF isinf(cutoff) THEN PINF ELSE nextafter(cutoff, PINF) - la

\* Local state of the ERP kernel: two lines of nbcols + 1 cells; cells is
\* the number of cells computed so far, which the kernel does not store.
erp_entry(nblines, nbcols, cutoff, ub) ==
  [nblines |-> nblines, nbcols |-> nbcols, cutoff |-> cutoff, ub |-> ub,
   buffer |-> [x \in 0..(2 * nbcols + 1) |-> 0],
   c |-> 0, p |-> nbcols + 1, i |-> 0, j |-> 0, cost |-> 0,
   next_start |-> 0, prev_pp |-> 0, curr_pp |-> 0,
   returned |-> FALSE, ret |-> 0, cells |-> 0]

\* One cell computed and stored.
erp_cell(s, cost) ==
  [s EXCEPT !.cost = cost, !.buffer[s.c + s.j] = cost, !.j = s.j + 1,
            !.cells = s.cells + 1]

\* The border line: cumulated gap costs, while <= ub.
RECURSIVE erp_first_line_rest(_, _)
erp_first_line_rest(e, s) ==
  IF s.j < min2(e.w + 2, s.nbcols + 1)
  THEN LET cost == s.cost + erp_gv_cols(e, s.j)
           s1 == erp_cell(s, cost)
       IN IF fle(cost, s.ub)
          THEN erp_first_line_rest(e, [s1 EXCEPT !.prev_pp = s.j + 1])
          ELSE s1
  ELSE s

\* The corner of the borders is 0; then the border line, then ++i.
erp_first_line(e, s) ==
  LET s1 == erp_cell(s, 0)
  IN IF fle(0, s.ub)
     THEN LET s2 == erp_first_line_rest(e, [s1 EXCEPT !.prev_pp = 1])
          IN [s2 EXCEPT !.i = s2.i + 1]
     ELSE kreturn(s1, PINF)

\* Start of a line: swap of c and p; next_start is moved to the start of the
\* band when the band starts after it, and the first cell then has a
\* diagonal predecessor (banded is TRUE).
erp_row_begin(e, s) ==
  LET start == max2(s.next_start, erp_start(e, s.i))
  IN [banded |-> erp_start(e, s.i) > s.next_start,
      s |-> [s EXCEPT !.c = s.p, !.p = s.c, !.next_start = start,
                      !.curr_pp = start, !.j = start]]

\* Stage 0: the first cell of the line, only the cell above is valid.
erp_stage0(e, b) ==
  LET s == b.s
  IN IF b.banded \/ ~(s.j < s.prev_pp)
     THEN s
     ELSE LET cost == s.buffer[s.p + s.j] + erp_gv_lines(e, s.i)
              s1 == erp_cell(s, cost)
          IN IF fle(cost, s.ub)
             THEN [s1 EXCEPT !.curr_pp = s.j + 1]
             ELSE [s1 EXCEPT !.next_start = s.next_start + 1]

\* Stage 1: while j = next_start and j < prev_pp, diagonal and above.
RECURSIVE erp_stage1(_, _)
erp_stage1(e, s) ==
  IF s.j = s.next_start /\ s.j < s.prev_pp /\ s.j < erp_stop(e, s.i, s.nbcols)
  THEN LET cost == min2(s.buffer[s.p + s.j - 1] + erp_dist(e, s.i, s.j),
                        s.buffer[s.p + s.j] + erp_gv_lines(e, s.i))
           s1 == erp_cell(s, cost)
       IN IF fle(cost, s.ub)
          THEN erp_stage1(e, [s1 EXCEPT !.curr_pp = s.j + 1])
          ELSE erp_stage1(e, [s1 EXCEPT !.next_start = s.next_start + 1])
  ELSE s

\* Stage 2: while j < prev_pp, the three predecessors.
RECURSIVE erp_stage2(_, _)
erp_stage2(e, s) ==
  IF s.j < s.prev_pp /\ s.j < erp_stop(e, s.i, s.nbcols)
  THEN LET cost == min3(s.buffer[s.p + s.j - 1] + erp_dist(e, s.i, s.j),
                        s.cost + erp_gv_cols(e, s.j),
                        s.buffer[s.p + s.j] + erp_gv_lines(e, s.i))
           s1 == erp_cell(s, cost)
       IN IF fle(cost, s.ub)
          THEN erp_stage2(e, [s1 EXCEPT !.curr_pp = s.j + 1])
          ELSE erp_stage2(e, s1)
  ELSE s

\* Stage 3: at j = prev_pp, the diagonal alone while next_start advances,
\* the left cell and the diagonal otherwise. A line without a cell <= ub is
\* abandoned; on the last cell the candidate is returned when <= cutoff.
erp_stage3(e, s) ==
  IF s.j > s.prev_pp
  THEN kreturn(s, PINF)
  ELSE IF s.j < erp_stop(e, s.i, s.nbcols)
  THEN IF s.j = s.next_start
       THEN LET cost == s.buffer[s.p + s.j - 1] + erp_dist(e, s.i, s.j)
                s1 == erp_cell(s, cost)
            IN IF fle(cost, s.ub)
               THEN [s1 EXCEPT !.curr_pp = s.j + 1]
               ELSE IF s.i = s.nblines /\ s.j = s.nbcols /\ fle(cost, s.cutoff)
                    THEN kreturn(s1, cost)
                    ELSE kreturn(s1, PINF)
       ELSE LET cost == min2(s.buffer[s.p + s.j - 1] + erp_dist(e, s.i, s.j),
                             s.cost + erp_gv_cols(e, s.j))
                s1 == erp_cell(s, cost)
            IN IF fle(cost, s.ub)
               THEN [s1 EXCEPT !.curr_pp = s.j + 1]
               ELSE s1
  ELSE IF s.j = s.next_start
       THEN IF s.i = s.nblines /\ s.j = s.nbcols + 1 /\ fle(s.cost, s.cutoff)
            THEN kreturn(s, s.cost)
            ELSE kreturn(s, PINF)
       ELSE s

\* Stage 4: after the previous pruning point, only the left cell.
RECURSIVE erp_stage4(_, _)
erp_stage4(e, s) ==
  IF s.j = s.curr_pp /\ s.j < erp_stop(e, s.i, s.nbcols)
  THEN LET cost == s.cost + erp_gv_cols(e, s.j)
           s1 == erp_cell(s, cost)
       IN IF fle(cost, s.ub)
          THEN erp_stage4(e, [s1 EXCEPT !.curr_pp = s.curr_pp + 1])
          ELSE erp_stage4(e, s1)
  ELSE s

\* One line of the main loop, ++i included.
erp_row(e, s) ==
  LET s3 == erp_stage3(e, erp_stage2(e, erp_stage1(e, erp_stage0(e, erp_row_begin(e, s)))))
  IN IF s3.returned
     THEN s3
     ELSE LET s4 == erp_stage4(e, s3)
          IN [s4 EXCEPT !.prev_pp = s4.curr_pp, !.i = s4.i + 1]

\* The last cell must have been computed and be <= cutoff.
erp_finalise(s) ==
  IF s.j = s.nbcols + 1 /\ fle(s.cost, s.cutoff)
  THEN kreturn(s, s.cost)
  ELSE kreturn(s, PINF)

RECURSIVE erp_loop(_, _)
erp_loop(e, s) ==
  IF s.returned THEN s
  ELSE IF s.i <= s.nblines THEN erp_loop(e, erp_row(e, s))
  ELSE erp_finalise(s)

\* The ERP kernel, 0 < nbcols <= nblines and nblines - nbcols <= w: the
\* state it ends in.
erp_kernel(e, cutoff) ==
  LET nl == Len(e.lines)
      nc == Len(e.cols)
  IN erp_loop(e, erp_first_line(e, erp_entry(nl, nc, cutoff, erp_ub(e, nl, nc, cutoff))))

\* The diagonal walk: the diagonal, then the last column with gap costs.
RECURSIVE erp_diagonal(_, _)
erp_diagonal(e, i) ==
  IF i = 0 THEN 0
  ELSE erp_diagonal(e, i - 1)
       + (IF i <= Len(e.cols) THEN erp_dist(e, i, i) ELSE erp_gv_lines(e, i))

\* The cutoff for the upper bound ub.
erp_cutoff(e, ub) ==
  IF isinf(ub) THEN erp_diagonal(e, Len(e.lines))
  ELSE IF isnan(ub) THEN PINF
  ELSE ub

\* The longer series gives the lines; the window is capped by their number.
erp_env(s1, s2, gv, w) ==
  LET lines == IF Len(s1) < Len(s2) THEN s2 ELSE s1
      cols == IF Len(s1) < Len(s2) THEN s1 ELSE s2
  IN ErpEnv(lines, cols, gv, IF w > Len(lines) THEN Len(lines) ELSE w)

\* ERP with a window.
erp(s1, s2, gv, w, ub) ==
  LET e == erp_env(s1, s2, gv, w)
  IN IF Len(e.lines) = 0 /\ Len(e.cols) = 0 THEN 0
     ELSE IF Len(e.cols) = 0 THEN PINF
     ELSE IF Len(e.lines) - Len(e.cols) > e.w THEN PINF
     ELSE erp_kernel(e, erp_cutoff(e, ub)).ret

\* The ERP kernel left cells of the band out.
erp_pruned(s1, s2, gv, w, ub) ==
  LET e == erp_env(s1, s2, gv, w)
  IN /\ Len(e.cols) # 0 /\ Len(e.lines) - Len(e.cols) <= e.w
     /\ erp_kernel(e, erp_cutoff(e, ub)).cells < erp_kernel(e, PINF).cells

\* ------------------------------------------------------------------------
\* One call of msm, step by step
\* ------------------------------------------------------------------------
VARIABLES pc, env, ubArg, k, call, out, nn1, route, split, cli, tool, loocv, forest

vars == <<pc, env, ubArg, k, call, out, nn1, route, split, cli, tool, loocv, forest>>

\* The state of the distances and of the scans, and the state of the
\* splitter, of the two tools, of the tuner and of the forest.
distance_vars == <<env, ubArg, k, call, out, nn1, route>>
program_vars == <<split, cli, tool, loocv, forest>>

\* No distance evaluation under way.
no_call == [measure |-> "none", s1 |-> <<>>, s2 |-> <<>>, dim |-> 1, p |-> 0, q |-> 0, ub |-> PINF]
no_out == [done |-> FALSE, v |-> 0, ref |-> 0, ref_uni |-> 0, pruned |-> FALSE]

\* No 1-NN scan and no routing under way.
no_scan ==
  [measure |-> "none", dim |-> 1, s1 |-> <<>>, i |-> 0, j |-> 0,
   idx_ref |-> 0, bsf_ref |-> PINF, idx |-> 0, bsf |-> PINF,
   idx_eap |-> 0, bsf_eap |-> PINF, failed |-> FALSE, abandoned |-> FALSE]
no_route ==
  [gen |-> "none", w |-> 0, gv |-> 0, weights |-> <<>>, query |-> <<>>,
   bsf |-> PINF, labels |-> <<>>, order |-> <<>>,
   d |-> PINF, len |-> 0, dmin |-> PINF, argmin |-> {}, branch |-> 0]

\* A std::map without entry.
empty_map == [l \in {} |-> <<>>]

\* No split, no command line, no run of the LOOCV tool, no tuning and no
\* prediction under way.
no_distance == [gen |-> "none", w |-> 0, gv |-> 0]
no_splitter ==
  [train_dataset |-> <<>>, train_indexset |-> <<>>, labels_to_index |-> <<>>,
   transformation_name |-> "", distance |-> no_distance]
no_split ==
  [classes |-> <<>>, real |-> <<>>, train_dataset |-> <<>>,
   transformation_name |-> "", distance |-> no_distance,
   train_indexset |-> <<>>, q |-> 0, ties |-> <<>>, predicted |-> <<>>,
   result_bcmvec |-> <<>>, c |-> 0, v_bcm |-> <<>>, splitter |-> no_splitter,
   test_exemplar |-> <<>>, test_labels |-> <<>>, test_bsf |-> PINF, branch |-> 0]
no_conf ==
  [k |-> 0, nbthreads |-> 0, seed |-> 0, outpath |-> <<>>,
   normalisation_name |-> "", norm_min_range |-> <<>>, norm_max_range |-> <<>>,
   transform_name |-> "", param_derivative_degree |-> <<>>,
   dist_name |-> "", dist_fun |-> <<>>,
   param_cf_exponent |-> <<>>, param_window |-> <<>>,
   param_omega |-> <<>>, param_g |-> <<>>, param_gap_value |-> <<>>,
   param_epsilon |-> <<>>, param_c |-> <<>>]
no_cli ==
  [stage |-> "none", conf |-> no_conf, returned |-> <<>>,
   exited |-> FALSE, code |-> 0, cerr |-> <<>>, cout |-> <<>>,
   et |-> <<>>, d |-> <<>>, hw |-> 0, bad |-> ""]
no_json == {}
no_tool ==
  [stage |-> "none", argc |-> 0, transform |-> "", distance_name |-> "",
   cfe |-> 0, nbthreads |-> 0, jv |-> no_json, opened |-> FALSE,
   outfile |-> <<>>, cout |-> <<>>, cerr |-> <<>>, computed |-> FALSE,
   exited |-> FALSE, code |-> 0, failure |-> ""]
no_loocv ==
  [stage |-> "none", seed |-> 0, nbthreads |-> 0, points |-> <<>>,
   labels |-> <<>>, next |-> 0, workers |-> {}, nc |-> <<>>,
   pred |-> <<>>, bsf |-> <<>>, done |-> <<>>, reused |-> FALSE, best |-> 0]
no_forest ==
  [stage |-> "none", nb_trees |-> 0, classes |-> <<>>, next |-> 0,
   workers |-> {}, trees |-> <<>>, results |-> <<>>, probabilities |-> <<>>]

programs_idle ==
  /\ split = no_split
  /\ cli = no_cli
  /\ tool = no_tool
  /\ loocv = no_loocv
  /\ forest = no_forest

UpperBounds == (0..MaxCut) \cup {PINF, QNAN}

nblines == Len(env.lines)
nbcols == Len(env.cols)

\* assert(nblines!=0); assert(nbcols!=0); assert(nbcols<=nblines);
precondition(nl, nc) == nl # 0 /\ nc # 0 /\ nc <= nl

Init ==
  /\ pc = "idle"
  /\ env = MsmEnv(<<>>, <<>>, 0)
  /\ ubArg = PINF
  /\ k = kernel_entry(0, 0, 0, 0)
  /\ call = no_call
  /\ out = no_out
  /\ nn1 = no_scan
  /\ route = no_route
  /\ programs_idle

\* The scratch buffer given by the caller: the empty vector of the helper
\* without buffer, or a vector left by an earlier call, longer than this
\* call needs and holding other values than 0.
ScratchBuffers ==
  {<<>>, [x \in 0..(2 * MaxLen) |-> MaxVal]}

\* msm(lines, cols, c, ub): the length checks and the cutoff, up to the call
\* of internal::msm.
msm_call ==
  /\ pc = "idle"
  /\ \E l \in Series, c_ \in Series, co \in {0, MaxC}, ub \in UpperBounds :
       LET e == MsmEnv(l, c_, co)
           nl == Len(l)
           nc == Len(c_)
       IN /\ env' = e
          /\ ubArg' = ub
          /\ IF nl = 0 /\ nc = 0
             THEN pc' = "done" /\ k' = kreturn(k, 0)
             ELSE IF (nl = 0) # (nc = 0)
             THEN pc' = "done" /\ k' = kreturn(k, PINF)
             ELSE /\ pc' = "internal"
                  /\ \E buffer_v \in ScratchBuffers :
                       k' = [kernel_entry(nl, nc, msm_cutoff(e, nl, nc, ub), 0)
                               EXCEPT !.buffer = buffer_v, !.buffer_v0 = buffer_v]
  /\ UNCHANGED <<call, out, nn1, route, program_vars>>

\* A build with assertions enabled stops on a failed precondition.
internal_msm_assert ==
  /\ pc = "internal"
  /\ ~precondition(k.nblines, k.nbcols)
  /\ pc' = "aborted"
  /\ UNCHANGED <<env, ubArg, k, call, out, nn1, route, program_vars>>

\* The values ub can take.  With a single line and several columns the
\* closure dist_lines reads the element before the first one of the lines:
\* la is then any value, and ub is nextafter(cutoff, PINF) or NaN.
ub_outcomes(e, nl, nc, cutoff) ==
  IF nc >= 2 /\ nl = 1
  THEN {nextafter(cutoff, PINF), QNAN}
  ELSE {ub_init(e, nl, nc, cutoff)}

\* internal::msm up to the main loop: ub, the buffer and the first line.
internal_msm_begin ==
  /\ pc = "internal"
  /\ \E ub \in ub_outcomes(env, k.nblines, k.nbcols, k.cutoff) :
       k' = first_line(env, [kernel_entry(k.nblines, k.nbcols, k.cutoff, ub)
                               EXCEPT !.buffer = assign(k.buffer, k.nbcols * 2, 0),
                                      !.buffer_v0 = k.buffer_v0])
  /\ pc' = IF k'.returned THEN "done" ELSE "rows"
  /\ UNCHANGED <<env, ubArg, call, out, nn1, route, program_vars>>

\* One iteration of the main loop.
internal_msm_row ==
  /\ pc = "rows"
  /\ k.i < k.nblines
  /\ k' = [main_row(env, k) EXCEPT !.buffer_v0 = <<>>]
  /\ pc' = IF k'.returned THEN "done" ELSE "rows"
  /\ UNCHANGED <<env, ubArg, call, out, nn1, route, program_vars>>

\* After the main loop.
internal_msm_end ==
  /\ pc = "rows"
  /\ ~(k.i < k.nblines)
  /\ k' = [finalise(k) EXCEPT !.buffer_v0 = <<>>]
  /\ pc' = "done"
  /\ UNCHANGED <<env, ubArg, call, out, nn1, route, program_vars>>

Next ==
  \/ msm_call
  \/ internal_msm_assert
  \/ internal_msm_begin
  \/ internal_msm_row
  \/ internal_msm_end

Spec == Init /\ [][Next]_vars

\* ------------------------------------------------------------------------
\* The comparisons of the tests: a kernel against its reference
\* ------------------------------------------------------------------------
\* Largest window of ERP.
MaxW == 3
\* Largest nu and lambda of TWE.
MaxNu == 1
\* Largest number of channels.
MaxDim == 2
\* Largest value of a series of the comparisons.
MaxAmp == 2

Call(measure, s1, s2, dim, p, q, ub) ==
  [measure |-> measure, s1 |-> s1, s2 |-> s2, dim |-> dim, p |-> p, q |-> q, ub |-> ub]

\* The gap values of ERP, its windows, the parameters of TWE and the
\* numbers of channels the comparisons run over.
TestSeries == UNION {[1..n -> 0..MaxAmp] : n \in 0..MaxLen}
GapValues == {0, MaxVal}
Windows == {0, 1, MaxW}
Nus == {0, MaxNu}
Dims == {1, MaxDim}

InitDist ==
  /\ pc = "dist"
  /\ env = MsmEnv(<<>>, <<>>, 0)
  /\ ubArg = PINF
  /\ k = kernel_entry(0, 0, 0, 0)
  /\ call = no_call
  /\ out = no_out
  /\ nn1 = no_scan
  /\ route = no_route
  /\ programs_idle

\* msm(s, s, c) with the default bound and with NaN.
eval_msm ==
  /\ pc = "dist" /\ ~out.done
  /\ \E s \in Series, c \in {0, MaxC}, ub \in {PINF, QNAN} :
       /\ call' = Call("msm", s, s, 1, c, 0, ub)
       /\ out' = [done |-> TRUE, v |-> univariate_msm(s, s, c, ub),
                  ref |-> 0, ref_uni |-> 0, pruned |-> FALSE]
  /\ UNCHANGED <<pc, env, ubArg, k, nn1, route, program_vars>>

\* erp(s1, s2, gv, w, ub) and erp_matrix.
eval_erp ==
  /\ pc = "dist" /\ ~out.done
  /\ \E s1 \in TestSeries, s2 \in TestSeries, gv \in GapValues, w \in Windows,
        ub \in UpperBounds :
       /\ call' = Call("erp", s1, s2, 1, gv, w, ub)
       /\ out' = [done |-> TRUE, v |-> erp(s1, s2, gv, w, ub),
                  ref |-> erp_matrix(s1, s2, gv, w), ref_uni |-> 0,
                  pruned |-> erp_pruned(s1, s2, gv, w, ub)]
  /\ UNCHANGED <<pc, env, ubArg, k, nn1, route, program_vars>>

\* twe(s1, s2, dim, nu, lambda, ub), twe_matrix and twe_matrix_uni.
eval_twe ==
  /\ pc = "dist" /\ ~out.done
  /\ \E s1 \in TestSeries, s2 \in TestSeries, dim \in Dims, nu \in Nus, la \in Nus,
        ub \in UpperBounds :
       LET e == twe_env(s1, s2, dim, nu, la)
       IN /\ call' = Call("twe", s1, s2, dim, nu, la, ub)
          /\ out' = [done |-> TRUE, v |-> twe(s1, s2, dim, nu, la, ub),
                     ref |-> twe_matrix(s1, s2, dim, nu, la),
                     ref_uni |-> twe_matrix_uni(s1, s2, nu, la),
                     pruned |-> eap_pruned(e, Len(e.lines) \div dim,
                                           Len(e.cols) \div dim, ub)]
  /\ UNCHANGED <<pc, env, ubArg, k, nn1, route, program_vars>>

\* dtw(s1, s2, dim, ub) and dtw_matrix.
eval_dtw ==
  /\ pc = "dist" /\ ~out.done
  /\ \E s1 \in TestSeries, s2 \in TestSeries, dim \in Dims, ub \in UpperBounds :
       LET e == dtw_env(s1, s2, dim)
       IN /\ call' = Call("dtw", s1, s2, dim, 0, 0, ub)
          /\ out' = [done |-> TRUE, v |-> dtw(s1, s2, dim, ub),
                     ref |-> dtw_matrix(s1, s2, dim), ref_uni |-> 0,
                     pruned |-> eap_pruned(e, Len(e.lines) \div dim,
                                           Len(e.cols) \div dim, ub)]
  /\ UNCHANGED <<pc, env, ubArg, k, nn1, route, program_vars>>

NextDist ==
  \/ eval_msm
  \/ eval_erp
  \/ eval_twe
  \/ eval_dtw

SpecDist == InitDist /\ [][NextDist]_vars

\* ------------------------------------------------------------------------
\* The 1-NN scans of the tests
\* ------------------------------------------------------------------------
\* Number of series of the test set.
NbItems == 11
\* for (size_t i = 0; i<nbitems; i += 3)
QueryStride == 3
\* for (size_t j = 0; j<nbitems; j += 5)
CandidateStride == 5

\* The two values of the series of the scans and of the routing.
Levels == {0, MaxVal}
\* The series of a test set of fixed length.
FixedSet == [1..MaxLen -> {0, MaxAmp}]

\* The parameters of the inner loops, in the order of the loops: (gv, w)
\* for every w then every gv, (nu, lambda) for every nu then every lambda.
WindowSeq == <<0, 1, MaxW>>
GapSeq == <<0, MaxVal>>
NuSeq == <<0, MaxNu>>
ErpParams ==
  [n \in 1..(Len(WindowSeq) * Len(GapSeq)) |->
     <<GapSeq[((n - 1) % Len(GapSeq)) + 1], WindowSeq[((n - 1) \div Len(GapSeq)) + 1]>>]
TweParams ==
  [n \in 1..(Len(NuSeq) * Len(NuSeq)) |->
     <<NuSeq[((n - 1) \div Len(NuSeq)) + 1], NuSeq[((n - 1) % Len(NuSeq)) + 1]>>]
ScanParams(measure) ==
  CASE measure = "erp" -> ErpParams
    [] measure = "twe" -> TweParams
    [] measure = "dtw" -> << <<0, 0>> >>

\* The kernel and the reference of a test.
kernel_value(measure, s1, s2, dim, p, q, ub) ==
  CASE measure = "erp" -> erp(s1, s2, p, q, ub)
    [] measure = "twe" -> twe(s1, s2, dim, p, q, ub)
    [] measure = "dtw" -> dtw(s1, s2, dim, ub)
reference_value(measure, s1, s2, dim, p, q) ==
  CASE measure = "erp" -> erp_matrix(s1, s2, p, q)
    [] measure = "twe" -> twe_matrix(s1, s2, dim, p, q)
    [] measure = "dtw" -> dtw_matrix(s1, s2, dim)

\* if (v<bsf) { idx = j; bsf = v; }
nn1_ref(st, j, v) ==
  IF v < st.bsf_ref THEN [st EXCEPT !.idx_ref = j, !.bsf_ref = v] ELSE st
nn1_base(st, j, v) ==
  IF v < st.bsf THEN [st EXCEPT !.idx = j, !.bsf = v] ELSE st
nn1_eap(st, j, v) ==
  IF v < st.bsf_eap THEN [st EXCEPT !.idx_eap = j, !.bsf_eap = v] ELSE st

\* REQUIRE(idx_ref==idx); REQUIRE(idx_ref==idx_eap); a failed REQUIRE ends
\* the test.
nn1_require(st, idx) ==
  [st EXCEPT !.failed = ~(st.idx_ref = idx)]

\* The second half of a pass, from the state st1 the first REQUIRE leaves:
\* nothing when it failed; otherwise the update from the kernel under the
\* best-so-far, v_eap, and the second REQUIRE. abandoned records that a call
\* under the best-so-far returned +inf for a finite reference, which the
\* test does not store.
nn1_body_eap(st1, j, ref, v_eap) ==
  IF st1.failed
  THEN st1
  ELSE LET cut == st1.abandoned \/ (isinf(v_eap) /\ ~isinf(ref))
           st2 == nn1_eap([st1 EXCEPT !.abandoned = cut], j, v_eap)
       IN nn1_require(st2, st2.idx_eap)

\* One pass of the body of the NN1 loop for the candidate s2 of index j
\* under the parameters (p, q); value[u] is the kernel under the bound u:
\* the reference, the kernel under the default bound and the first REQUIRE,
\* then the second half. The reference, the kernel values and the state
\* after the first two updates are each computed once, as the elements of
\* singletons.
nn1_body(st, s2, j, p, q) ==
  CHOOSE st2 \in
    {nn1_body_eap(nn1_require(c.st1, c.st1.idx), j, c.ref, c.value[st.bsf_eap]) :
       c \in {[ref |-> ref, value |-> value, st1 |-> nn1_base(nn1_ref(st, j, ref), j, value[PINF])] :
                ref \in {reference_value(st.measure, st.s1, s2, st.dim, p, q)},
                value \in {[u \in {PINF, st.bsf_eap} |->
                             kernel_value(st.measure, st.s1, s2, st.dim, p, q, u)]}}} : TRUE

\* The inner loops over the parameters from the n-th on.
RECURSIVE nn1_params(_, _, _, _)
nn1_params(st, s2, j, n) ==
  IF n > Len(ScanParams(st.measure)) \/ st.failed THEN st
  ELSE nn1_params(
         nn1_body(st, s2, j, ScanParams(st.measure)[n][1], ScanParams(st.measure)[n][2]),
         s2, j, n + 1)

InitScan ==
  /\ pc = "scan_idle"
  /\ env = MsmEnv(<<>>, <<>>, 0)
  /\ ubArg = PINF
  /\ k = kernel_entry(0, 0, 0, 0)
  /\ call = no_call
  /\ out = no_out
  /\ nn1 = no_scan
  /\ route = no_route
  /\ programs_idle

\* One iteration of the query loop up to the NN1 loop, for the query of
\* index i.
nn1_query(measure, dims) ==
  /\ pc = "scan_idle"
  /\ \E s1 \in FixedSet, dim \in dims, i \in 0..(NbItems - 1) :
       /\ i % QueryStride = 0
       /\ nn1' = [no_scan EXCEPT !.measure = measure, !.dim = dim, !.s1 = s1, !.i = i]
  /\ pc' = "scan_loop"
  /\ UNCHANGED <<env, ubArg, k, call, out, route, program_vars>>

\* SECTION("NN1 DTW") of the ERP tests.
nn1_erp_query == nn1_query("erp", {1})
\* SECTION("NN1 TWE")
nn1_twe_query == nn1_query("twe", Dims)
\* SECTION("NN1 DTW") of the DTW tests.
nn1_dtw_query == nn1_query("dtw", Dims)

\* if (i==j) { continue; }
nn1_skip_self ==
  /\ pc = "scan_loop"
  /\ nn1.j < NbItems /\ nn1.i = nn1.j
  /\ nn1' = [nn1 EXCEPT !.j = nn1.j + CandidateStride]
  /\ UNCHANGED <<pc, env, ubArg, k, call, out, route, program_vars>>

\* One candidate of the NN1 loop, the loops over the parameters included.
nn1_candidate ==
  /\ pc = "scan_loop"
  /\ nn1.j < NbItems /\ nn1.i # nn1.j
  /\ \E s2 \in FixedSet :
       nn1' = [nn1_params(nn1, s2, nn1.j, 1) EXCEPT !.j = nn1.j + CandidateStride]
  /\ pc' = IF nn1'.failed THEN "scan_failed" ELSE "scan_loop"
  /\ UNCHANGED <<env, ubArg, k, call, out, route, program_vars>>

\* End of the NN1 loop.
nn1_end ==
  /\ pc = "scan_loop"
  /\ ~(nn1.j < NbItems)
  /\ pc' = "scan_done"
  /\ UNCHANGED <<env, ubArg, k, call, out, nn1, route, program_vars>>

NextScan ==
  \/ nn1_erp_query
  \/ nn1_twe_query
  \/ nn1_dtw_query
  \/ nn1_skip_self
  \/ nn1_candidate
  \/ nn1_end

SpecScan == InitScan /\ [][NextScan]_vars

\* ------------------------------------------------------------------------
\* 1-NN routing of the proximity forest
\* ------------------------------------------------------------------------
\* Number of classes reaching the node, one exemplar each.
NbClasses == 2
\* Largest length of a series reaching the node.
MaxRowLen == 2

\* The labels of the node and the series reaching it.
Labels == 1..NbClasses
Rows == UNION {[1..n -> Levels] : n \in 1..MaxRowLen}

\* labels_to_index: the branch of a label is its rank among the labels.
labels_to_index(label) == Cardinality({l \in Labels : l < label})

\* CDTW: DTW restricted to |i - j| <= w, +inf when the lengths differ by
\* more than w.
cdtw_dp(lines, cols, w) ==
  LET cell(M, i, j) ==
        IF i = 0 /\ j = 0 THEN 0
        ELSE IF i = 0 \/ j = 0 THEN PINF
        ELSE IF absdiff(i, j) > w THEN PINF
        ELSE fadd(min3(M[i - 1, j - 1], M[i - 1, j], M[i, j - 1]),
                  square_dist(at(lines, i - 1), at(cols, j - 1)))
  IN fill_matrix(Len(lines) + 1, Len(cols) + 1, cell)[Len(lines), Len(cols)]

cdtw(s1, s2, w, ub) ==
  LET lines == IF Len(s1) < Len(s2) THEN s2 ELSE s1
      cols == IF Len(s1) < Len(s2) THEN s1 ELSE s2
  IN IF Len(lines) = 0 /\ Len(cols) = 0 THEN 0
     ELSE IF Len(cols) = 0 THEN PINF
     ELSE IF Len(lines) - Len(cols) > w THEN PINF
     ELSE within_bound(cdtw_dp(lines, cols, w), ub)

\* Direct alignment: the sum of the costs of the pairs (i, i), +inf when
\* the lengths differ or when the sum is above the bound.
RECURSIVE directa_sum(_, _, _)
directa_sum(s1, s2, n) ==
  IF n = 0 THEN 0
  ELSE directa_sum(s1, s2, n - 1) + square_dist(at(s1, n - 1), at(s2, n - 1))

directa(s1, s2, ub) ==
  IF Len(s1) # Len(s2) THEN PINF
  ELSE within_bound(directa_sum(s1, s2, Len(s1)), ub)

\* The factor g of the weights is drawn in [0, 1): 0, and 1 standing for
\* the values next to 1.
WeightFactors == {0, 1}

\* 1 / (1 + exp(-x)) counted in eighths, at x = h / 2.
sigmoid(h) ==
  CASE h <= -3 -> 1
    [] h = -2 -> 2
    [] h = -1 -> 3
    [] h = 0 -> 4
    [] h = 1 -> 5
    [] h = 2 -> 6
    [] h \in 3..5 -> 7
    [] OTHER -> 8

\* generate_weights(g, length_max): W[k] = wmax / (1 + exp(-g * (k - L/2)))
\* for k in 0..L-1, with wmax = 1, counted in eighths.
generate_weights(g, length_max) ==
  [n \in 1..length_max |-> IF g = 0 THEN sigmoid(0) ELSE sigmoid(2 * (n - 1) - length_max)]

\* WDTW: DTW with the cost of the cell (i, j) multiplied by W[|i - j|].
wdtw_dp(lines, cols, weights) ==
  LET cell(M, i, j) ==
        IF i = 0 /\ j = 0 THEN 0
        ELSE IF i = 0 \/ j = 0 THEN PINF
        ELSE fadd(min3(M[i - 1, j - 1], M[i - 1, j], M[i, j - 1]),
                  at(weights, absdiff(i, j)) * square_dist(at(lines, i - 1), at(cols, j - 1)))
  IN fill_matrix(Len(lines) + 1, Len(cols) + 1, cell)[Len(lines), Len(cols)]

wdtw(s1, s2, weights, ub) ==
  LET lines == IF Len(s1) < Len(s2) THEN s2 ELSE s1
      cols == IF Len(s1) < Len(s2) THEN s1 ELSE s2
  IN IF Len(lines) = 0 /\ Len(cols) = 0 THEN 0
     ELSE IF Len(cols) = 0 THEN PINF
     ELSE within_bound(wdtw_dp(lines, cols, weights), ub)

\* const size_t win_top = (state.get_header().length_max() + 1)/4;
win_top(length_max) == (length_max + 1) \div 4

\* The distances the generators hand to TrainSplitter_1NN.
SG_1NN_DA_distance(t1, t2, bsf) ==
  directa(t1, t2, bsf)
SG_1NN_DTWFull_distance(t1, t2, bsf) ==
  dtw(t1, t2, 1, bsf)
SG_1NN_DTW_distance(w, t1, t2, bsf) ==
  cdtw(t1, t2, w, bsf)
SG_1NN_WDTW_distance(weights, t1, t2, bsf) ==
  wdtw(t1, t2, weights, bsf)
SG_1NN_ERP_distance(w, gv, t1, t2, bsf) ==
  erp(t1, t2, gv, w, bsf)

distance(r, t1, t2, bsf) ==
  CASE r.gen = "DA" -> SG_1NN_DA_distance(t1, t2, bsf)
    [] r.gen = "DTWFull" -> SG_1NN_DTWFull_distance(t1, t2, bsf)
    [] r.gen = "DTW" -> SG_1NN_DTW_distance(r.w, t1, t2, bsf)
    [] r.gen = "WDTW" -> SG_1NN_WDTW_distance(r.weights, t1, t2, bsf)
    [] r.gen = "ERP" -> SG_1NN_ERP_distance(r.w, r.gv, t1, t2, bsf)

contains(labels, l) == \E n \in 1..Len(labels) : labels[n] = l

\* The update without the ties.
nn1_route_without_ties(r, label, d) ==
  IF d < r.bsf THEN [r EXCEPT !.labels = <<label>>, !.bsf = d] ELSE r

\* The update with a label joining the ties on a result that is not larger.
nn1_route_resets_on_tie(r, label, d) ==
  IF d <= r.bsf THEN [r EXCEPT !.labels = <<label>>, !.bsf = d] ELSE r

\* The update with no tie between two +inf.
nn1_route_finite_ties(r, label, d) ==
  IF d < r.bsf
  THEN [r EXCEPT !.labels = <<label>>, !.bsf = d]
  ELSE IF r.bsf = d /\ ~isinf(d)
  THEN IF ~contains(r.labels, label)
       THEN [r EXCEPT !.labels = Append(r.labels, label)]
       ELSE r
  ELSE r

\* if (d<bsf) { labels = {label}; bsf = d; }
\* else if (bsf==d) { if (none_of(labels, label)) { labels.emplace_back(label); } }
nn1_route(r, label, d) ==
  IF d < r.bsf
  THEN [r EXCEPT !.labels = <<label>>, !.bsf = d]
  ELSE IF r.bsf = d
  THEN IF ~contains(r.labels, label)
       THEN [r EXCEPT !.labels = Append(r.labels, label)]
       ELSE r
  ELSE r

\* What the scan does not store: the labels scanned, in order, the distance
\* of the last exemplar under the bound +inf, its length, the smallest of
\* these distances and the labels at it.
observe(r, label, len, d) ==
  [r EXCEPT !.order = Append(r.order, label), !.d = d, !.len = len,
            !.dmin = IF d < r.dmin THEN d ELSE r.dmin,
            !.argmin = IF d < r.dmin \/ r.order = <<>> THEN {label}
                       ELSE IF d = r.dmin THEN r.argmin \cup {label}
                       ELSE r.argmin]

\* One iteration of the NN1 loop for the exemplar of the label; value[u] is
\* the distance under the bound u.
nn1_route_body(r, exemplar, label) ==
  LET value == [u \in {PINF, r.bsf} |-> distance(r, exemplar, r.query, u)]
  IN observe(nn1_route(r, label, value[r.bsf]), label, Len(exemplar), value[PINF])

InitRoute ==
  /\ pc = "route_idle"
  /\ env = MsmEnv(<<>>, <<>>, 0)
  /\ ubArg = PINF
  /\ k = kernel_entry(0, 0, 0, 0)
  /\ call = no_call
  /\ out = no_out
  /\ nn1 = no_scan
  /\ route = no_route
  /\ programs_idle

\* SG_1NN_DA::generate up to TrainSplitter_1NN::generate.
SG_1NN_DA_generate ==
  /\ pc = "route_idle"
  /\ route' = [no_route EXCEPT !.gen = "DA"]
  /\ pc' = "splitter"
  /\ UNCHANGED <<env, ubArg, k, call, out, nn1, program_vars>>

\* SG_1NN_DTWFull::generate up to TrainSplitter_1NN::generate.
SG_1NN_DTWFull_generate ==
  /\ pc = "route_idle"
  /\ route' = [no_route EXCEPT !.gen = "DTWFull"]
  /\ pc' = "splitter"
  /\ UNCHANGED <<env, ubArg, k, call, out, nn1, program_vars>>

\* SG_1NN_DTW::generate up to TrainSplitter_1NN::generate: the window is
\* drawn from 0..win_top.
SG_1NN_DTW_generate ==
  /\ pc = "route_idle"
  /\ \E length_max \in MaxRowLen..MaxLen :
       \E w \in 0..win_top(length_max) :
         route' = [no_route EXCEPT !.gen = "DTW", !.w = w]
  /\ pc' = "splitter"
  /\ UNCHANGED <<env, ubArg, k, call, out, nn1, program_vars>>

\* SG_1NN_WDTW::generate up to TrainSplitter_1NN::generate: g is drawn and
\* the weights are computed over length_max.
SG_1NN_WDTW_generate ==
  /\ pc = "route_idle"
  /\ \E length_max \in MaxRowLen..MaxLen, g \in WeightFactors :
       route' = [no_route EXCEPT !.gen = "WDTW",
                                 !.weights = generate_weights(g, length_max)]
  /\ pc' = "splitter"
  /\ UNCHANGED <<env, ubArg, k, call, out, nn1, program_vars>>

\* SG_1NN_ERP::generate up to TrainSplitter_1NN::generate: the window and
\* the gap value are drawn.
SG_1NN_ERP_generate ==
  /\ pc = "route_idle"
  /\ \E length_max \in MaxRowLen..MaxLen, gv \in GapValues :
       \E w \in 0..win_top(length_max) :
         route' = [no_route EXCEPT !.gen = "ERP", !.w = w, !.gv = gv]
  /\ pc' = "splitter"
  /\ UNCHANGED <<env, ubArg, k, call, out, nn1, program_vars>>

\* A query enters its NN1 loop: bsf is +inf and there is no label.
nn1_route_begin ==
  /\ pc = "splitter"
  /\ \E query \in Rows :
       route' = [route EXCEPT !.query = query, !.bsf = PINF, !.labels = <<>>]
  /\ pc' = "route_scan"
  /\ UNCHANGED <<env, ubArg, k, call, out, nn1, program_vars>>

\* TrainSplitter_1NN::generate, for (auto query_idx : IndexSet(bcm))
TrainSplitter_1NN_generate == nn1_route_begin
\* TestSplitter_1NN::get_branch_index
TestSplitter_1NN_get_branch_index == nn1_route_begin

\* One exemplar of the NN1 loop, in the order of the index set.
nn1_route_exemplar ==
  /\ pc = "route_scan"
  /\ Len(route.order) < NbClasses
  /\ \E exemplar \in Rows, label \in Labels :
       /\ ~contains(route.order, label)
       /\ route' = nn1_route_body(route, exemplar, label)
  /\ UNCHANGED <<pc, env, ubArg, k, call, out, nn1, program_vars>>

\* L predicted_label = utils::pick_one(labels, *prng); the branch is
\* labels_to_index.at(predicted_label).
nn1_route_pick ==
  /\ pc = "route_scan"
  /\ Len(route.order) = NbClasses
  /\ \E n \in 1..Len(route.labels) :
       route' = [route EXCEPT !.branch = labels_to_index(route.labels[n])]
  /\ pc' = "routed"
  /\ UNCHANGED <<env, ubArg, k, call, out, nn1, program_vars>>

NextRoute ==
  \/ SG_1NN_DA_generate
  \/ SG_1NN_DTWFull_generate
  \/ SG_1NN_DTW_generate
  \/ SG_1NN_WDTW_generate
  \/ SG_1NN_ERP_generate
  \/ TrainSplitter_1NN_generate
  \/ TestSplitter_1NN_get_branch_index
  \/ nn1_route_exemplar
  \/ nn1_route_pick

SpecRoute == InitRoute /\ [][NextRoute]_vars

\* ------------------------------------------------------------------------
\* TrainSplitter_1NN::generate: the children of a node
\* ------------------------------------------------------------------------
\* Largest number of rows of the by-class map reaching the node.
MaxRows == 3

\* The labels of a dataset.
DatasetLabels == {1, 2, 3}

\* The elements of a set of labels in increasing order: the keys of a
\* std::map, as bcm.classes() gives them.
sorted(S) ==
  CHOOSE seq \in [1..Cardinality(S) -> S] :
    \A a, b \in 1..Cardinality(S) : a < b => seq[a] < seq[b]

range(seq) == {seq[n] : n \in 1..Len(seq)}

\* bcm.labels_to_index(): the index of a label is its rank among the
\* classes of the map.
bcm_labels_to_index(classes, label) ==
  Cardinality({l \in range(classes) : l < label})

\* The list of the label replaced by the row.
map_assign(m, label, idx) ==
  [l \in DOMAIN m \cup {label} |-> IF l = label THEN <<idx>> ELSE m[l]]

\* result_bcmvec[predicted_index][real_label].push_back(query_idx)
map_push_back(m, label, idx) ==
  IF label \in DOMAIN m
  THEN [m EXCEPT ![label] = Append(@, idx)]
  ELSE [l \in DOMAIN m \cup {label} |-> IF l = label THEN <<idx>> ELSE m[l]]

\* The child left as it is, empty or not.
child_bcm_unfilled(m, label) ==
  m

\* The splitter built for the other transformation.
TestSplitter_1NN_other_transformation(train_dataset, train_indexset, l2i, transformation_name, distance_fn) ==
  [train_dataset |-> train_dataset,
   train_indexset |-> train_indexset, labels_to_index |-> l2i,
   transformation_name |->
     CHOOSE name \in {"default", "derivative"} : name # transformation_name,
   distance |-> distance_fn]

\* The constructor of TestSplitter_1NN: the members are the arguments.
TestSplitter_1NN(train_dataset, train_indexset, l2i, transformation_name, distance_fn) ==
  [train_dataset |-> train_dataset,
   train_indexset |-> train_indexset, labels_to_index |-> l2i,
   transformation_name |-> transformation_name, distance |-> distance_fn]

\* if (result_bcmvec[idx].empty()) { result_bcmvec[idx][label] = {}; }
child_bcm(m, label) ==
  IF DOMAIN m = {} THEN [l \in {label} |-> <<>>] ELSE m

InitSplit ==
  /\ pc = "split_idle"
  /\ env = MsmEnv(<<>>, <<>>, 0)
  /\ ubArg = PINF
  /\ k = kernel_entry(0, 0, 0, 0)
  /\ call = no_call
  /\ out = no_out
  /\ nn1 = no_scan
  /\ route = no_route
  /\ programs_idle

\* The rows of the transformed training set: two series of different
\* lengths, so that rows can be equal, apart, or out of reach of each other
\* under a window of 0.
SplitRows == {<<0>>, <<1, 1>>}
SplitWindows == {0, 1}
TransformationNames == {"default", "derivative"}

\* utils::pick_one(labels, prng): what it can return. On an empty vector
\* it reads past the end: any label, or a value that is no label.
pick_one(labels) ==
  IF Len(labels) = 0 THEN DatasetLabels \cup {0} ELSE range(labels)

\* labels_to_index.at(label): -1 stands for std::out_of_range.
labels_to_index_at(l2i, label) ==
  IF label \in DOMAIN l2i THEN l2i[label] ELSE -1

\* bcm.pick_one_by_class(prng) then IndexSet(train_bcm): one row of each
\* class, in increasing order of index.
pick_one_by_class(real) ==
  {sorted(E) : E \in {E \in SUBSET (0..(Len(real) - 1)) :
                        /\ Cardinality(E) = Cardinality(range(real))
                        /\ {real[e + 1] : e \in E} = range(real)}}

\* The NN1 loop of one query over the exemplars from the n-th on.
RECURSIVE split_nn1(_, _, _)
split_nn1(query_idx, n, r) ==
  IF n > Len(split.train_indexset) THEN r
  ELSE LET exemplar_idx == split.train_indexset[n]
           exemplar == split.train_dataset[exemplar_idx + 1]
           query == split.train_dataset[query_idx + 1]
           d == SG_1NN_DTW_distance(split.distance.w, exemplar, query, r.bsf)
       IN split_nn1(query_idx, n + 1,
                    nn1_route(r, split.real[exemplar_idx + 1], d))

\* generate up to the loop over the queries: the classes of the incoming
\* map, the real label and the series of each of its rows in the order of
\* IndexSet(bcm), the exemplar picked in each class, and one empty std::map
\* per class. The splitter generator is SG_1NN_DTW on the default
\* transformation.
split_begin ==
  /\ pc = "split_idle"
  /\ \E n \in 2..MaxRows : \E real \in [1..n -> DatasetLabels] :
       /\ Cardinality(range(real)) >= 2
       /\ \E train_dataset \in [1..n -> SplitRows], w \in SplitWindows,
             transformation_name \in {"default"},
             train_indexset \in pick_one_by_class(real) :
            split' = [no_split EXCEPT
                        !.classes = sorted(range(real)),
                        !.real = real,
                        !.train_dataset = train_dataset,
                        !.transformation_name = transformation_name,
                        !.distance = [gen |-> "DTW", w |-> w, gv |-> 0],
                        !.train_indexset = train_indexset,
                        !.result_bcmvec = [b \in 1..Cardinality(range(real)) |-> empty_map]]
  /\ pc' = "split_rows"
  /\ UNCHANGED <<distance_vars, cli, tool, loocv, forest>>

\* One query of the loop, an exemplar or not: the NN1 loop over the
\* exemplars, pick_one among the labels in a tie, and the row goes to the
\* branch of that label under its real label.
split_query ==
  /\ pc = "split_rows"
  /\ split.q < Len(split.real)
  /\ LET query_idx == split.q
         labels == split_nn1(query_idx, 1, [labels |-> <<>>, bsf |-> PINF]).labels
         l2i == [l \in range(split.classes) |-> bcm_labels_to_index(split.classes, l)]
     IN \E predicted_label \in pick_one(labels) :
          LET predicted_index == labels_to_index_at(l2i, predicted_label)
              real_label == split.real[query_idx + 1]
          IN split' = [split EXCEPT
                         !.q = @ + 1,
                         !.ties = Append(@, labels),
                         !.predicted = Append(@, predicted_index),
                         !.result_bcmvec =
                            IF predicted_index = -1 THEN @
                            ELSE [@ EXCEPT ![predicted_index + 1] =
                                    map_push_back(@, real_label, query_idx)]]
  /\ UNCHANGED <<pc, distance_vars, cli, tool, loocv, forest>>

\* One label of for (const auto& label : bcm.classes()).
split_child ==
  /\ pc = "split_rows"
  /\ split.q = Len(split.real)
  /\ split.c < Len(split.classes)
  /\ LET label == split.classes[split.c + 1]
         idx == bcm_labels_to_index(split.classes, label)
     IN split' = [split EXCEPT
                    !.c = @ + 1,
                    !.v_bcm = Append(@, child_bcm(split.result_bcmvec[idx + 1], label))]
  /\ UNCHANGED <<pc, distance_vars, cli, tool, loocv, forest>>

\* return Result{ResNode{.branch_splits = std::move(v_bcm), ...}}
split_return ==
  /\ pc = "split_rows"
  /\ split.q = Len(split.real)
  /\ split.c = Len(split.classes)
  /\ split' = [split EXCEPT
                 !.splitter =
                    TestSplitter_1NN([i \in 1..Len(split.real) |->
                                        [series |-> split.train_dataset[i],
                                         label |-> split.real[i]]],
                                     split.train_indexset,
                                     [l \in range(split.classes) |->
                                        bcm_labels_to_index(split.classes, l)],
                                     split.transformation_name, split.distance)]
  /\ pc' = "split_done"
  /\ UNCHANGED <<distance_vars, cli, tool, loocv, forest>>

\* The NN1 test loop of get_branch_index over the exemplars of the
\* splitter from the n-th on.
RECURSIVE get_branch_nn1(_, _, _, _)
get_branch_nn1(splitter, test_exemplar, n, r) ==
  IF n > Len(splitter.train_indexset) THEN r
  ELSE LET train_idx == splitter.train_indexset[n]
           train_exemplar == splitter.train_dataset[train_idx + 1]
           d == SG_1NN_DTW_distance(splitter.distance.w, train_exemplar.series,
                                    test_exemplar, r.bsf)
       IN get_branch_nn1(splitter, test_exemplar, n + 1,
                         nn1_route(r, train_exemplar.label, d))

\* TestSplitter_1NN::get_branch_index on one row of a test set, which
\* holds one series in each transformation: the NN1 test loop, pick_one
\* among the labels in a tie, and the branch of the label drawn.
split_get_branch_index ==
  /\ pc = "split_done"
  /\ \E test_dataset_map \in [TransformationNames -> SplitRows] :
       /\ \A a, b \in TransformationNames :
            a # b => test_dataset_map[a] # test_dataset_map[b]
       /\ LET test_exemplar == test_dataset_map[split.splitter.transformation_name]
              r == get_branch_nn1(split.splitter, test_exemplar, 1,
                                  [labels |-> <<>>, bsf |-> PINF])
          IN \E predicted_label \in pick_one(r.labels) :
               split' = [split EXCEPT
                           !.test_exemplar = test_dataset_map[split.transformation_name],
                           !.test_labels = r.labels,
                           !.test_bsf = r.bsf,
                           !.branch = labels_to_index_at(split.splitter.labels_to_index,
                                                         predicted_label)]
  /\ pc' = "split_routed"
  /\ UNCHANGED <<distance_vars, cli, tool, loocv, forest>>

NextSplit ==
  \/ split_begin
  \/ split_query
  \/ split_child
  \/ split_return
  \/ split_get_branch_index

SpecSplit == InitSplit /\ [][NextSplit]_vars

\* ------------------------------------------------------------------------
\* The NN-k grid search tool: parsing of the command line
\* ------------------------------------------------------------------------
\* Largest integer given to -k, -et and -seed.
MaxInt == 2
\* Largest value of std::thread::hardware_concurrency().
MaxHw == 2
\* Largest value of std::random_device()().
MaxSeed == 1

\* An optional without value, and with one.
nullopt == [has_value |-> FALSE, value |-> 0]
some(v) == [has_value |-> TRUE, value |-> v]

\* The parameters written after a ':' are tokens: integers ("-1", "0",
\* "1"), a fraction ("0.5") and words.
\* tempo::reader::as_int and as_long: the integer a token writes, if any.
as_int(t) ==
  CASE t = "-1" -> some(-1)
    [] t = "0" -> some(0)
    [] t = "1" -> some(1)
    [] OTHER -> nullopt
as_long(t) == as_int(t)

\* tempo::reader::as_double: the number a token writes, if any, counted in
\* halves.
as_double(t) ==
  CASE t = "-1" -> some(-2)
    [] t = "0" -> some(0)
    [] t = "0.5" -> some(1)
    [] t = "1" -> some(2)
    [] OTHER -> nullopt

\* The values of a flag: the flag is absent, or followed by a value.
NoArg == <<>>
IntArgs == {NoArg} \cup {<<n>> : n \in -1..MaxInt}

\* tempo::scli::get_parameter<long long>(args, flag, extract_int, default)
get_parameter(arg, default) == IF arg = NoArg THEN default ELSE arg[1]

\* The exit without the usage.
do_exit_without_usage(c, code, msg) ==
  IF code = 0
  THEN [c EXCEPT !.exited = TRUE, !.code = code, !.cout = Append(@, msg)]
  ELSE [c EXCEPT !.exited = TRUE, !.code = code, !.cerr = Append(@, msg)]

\* do_exit(code, msg): with code 0 the message goes to the standard output,
\* otherwise the usage and then the message go to the standard error; the
\* process exits with the code.  A message is the tuple of its text and of
\* the word appended to it, if any.
do_exit(c, code, msg) ==
  IF code = 0
  THEN [c EXCEPT !.exited = TRUE, !.code = code, !.cout = Append(@, msg)]
  ELSE [c EXCEPT !.exited = TRUE, !.code = code,
                 !.cerr = Append(Append(@, <<"usage">>), msg)]

\* A parser that reached its end.
returns(c, parser) == [c EXCEPT !.returned = Append(@, parser)]

\* Value for k.
option_k(c, p_k) ==
  IF p_k <= 0 THEN do_exit(c, 1, <<"-k must be followed by a integer >= 1">>)
  ELSE [c EXCEPT !.conf.k = p_k]

\* Number of threads.
option_et(c, p_et, hardware_concurrency) ==
  IF p_et < 0
  THEN do_exit(c, 1, <<"-et must specify a number of threads > 0, or 0 for auto-detect">>)
  ELSE IF p_et = 0
  THEN [c EXCEPT !.conf.nbthreads = hardware_concurrency + 2]
  ELSE [c EXCEPT !.conf.nbthreads = p_et]

\* Random.
option_seed(c, p_seed, random_device) ==
  IF p_seed < 0 THEN [c EXCEPT !.conf.seed = random_device]
  ELSE [c EXCEPT !.conf.seed = p_seed]

\* Output file.
option_out(c, p_out) ==
  IF p_out # NoArg THEN [c EXCEPT !.conf.outpath = p_out] ELSE c

\* f(c) unless the process has exited.
then_k(c, p_k) == IF c.exited THEN c ELSE option_k(c, p_k)
then_et(c, p_et, hw) == IF c.exited THEN c ELSE option_et(c, p_et, hw)
then_seed(c, p_seed, rd) == IF c.exited THEN c ELSE option_seed(c, p_seed, rd)
then_out(c, p_out) == IF c.exited THEN c ELSE option_out(c, p_out)
then_returns(c, parser) == IF c.exited THEN c ELSE returns(c, parser)

\* cmd_optional(args, conf)
cmd_optional_body(c, a_k, a_et, a_seed, a_out, hw, rd) ==
  then_returns(
    then_out(
      then_seed(
        then_et(
          then_k(c, get_parameter(a_k, 1)),
          get_parameter(a_et, 0), hw),
        get_parameter(a_seed, -1), rd),
      a_out),
    "cmd_optional")

\* The parsers of the form
\*   if (v[0]==name) { bool ok = ...; if (ok) { ... conf ... }
\*                     if (!ok) { do_exit(1, message); } return true; }
\*   return false;
\* give whether the name matched and the state they leave.
not_matched(c) == [matched |-> FALSE, c |-> c]
parsed(c, ok, message, conf) ==
  [matched |-> TRUE,
   c |-> IF ok THEN [c EXCEPT !.conf = conf] ELSE do_exit(c, 1, <<message>>)]

\* utils::NO_WINDOW
NO_WINDOW == 999999

\* MeanNorm normalisation -n:meannorm
n_meannorm(v, c) ==
  IF v[1] = "meannorm"
  THEN parsed(c, Len(v) = 1, "MeanNorm parameter error", c.conf)
  ELSE not_matched(c)

\* MinMax normalisation -n:minmax, by default in <0:1>
n_minmax(v, c) ==
  IF v[1] = "minmax"
  THEN LET omin == IF Len(v) = 3 THEN as_double(v[2]) ELSE as_double("0")
           omax == IF Len(v) = 3 THEN as_double(v[3]) ELSE as_double("1")
       IN parsed(c, (Len(v) = 1 \/ Len(v) = 3) /\ omin.has_value /\ omax.has_value,
                 "MinMax parameter error",
                 [c.conf EXCEPT !.norm_min_range = <<omin.value>>,
                                !.norm_max_range = <<omax.value>>])
  ELSE not_matched(c)

\* Unit Length normalisation -n:unitlength
n_unitlength(v, c) ==
  IF v[1] = "unitlength"
  THEN parsed(c, Len(v) = 1, "MeanNorm parameter error", c.conf)
  ELSE not_matched(c)

\* Zscore normalisation -n:zscore
n_zscore(v, c) ==
  IF v[1] = "zscore"
  THEN parsed(c, Len(v) = 1, "ZScore parameter error", c.conf)
  ELSE not_matched(c)

\* The first parser of the chain that matches, or the state otherwise(c).
try(r, next(_)) == IF r.matched THEN r ELSE next(r.c)

\* cmd_normalisation(args, conf); arg is the value of -n split on ':'.
cmd_normalisation_body(c0, arg) ==
  IF arg = NoArg
  THEN returns([c0 EXCEPT !.conf.normalisation_name = "default"], "cmd_normalisation")
  ELSE LET c == [c0 EXCEPT !.conf.normalisation_name = arg[1]]
           unknown(x) ==
             [matched |-> TRUE,
              c |-> IF x.conf.normalisation_name = "default" THEN x
                    ELSE do_exit(x, 1, <<"Unknown normalisation", arg[1]>>)]
           n3(x) == try(n_zscore(arg, x), unknown)
           n2(x) == try(n_unitlength(arg, x), n3)
           n1(x) == try(n_minmax(arg, x), n2)
       IN then_returns(try(n_meannorm(arg, c), n1).c, "cmd_normalisation")

\* Derivative -t:derivative:<degree>
t_derivative(v, c) ==
  IF v[1] = "derivative"
  THEN LET od == IF Len(v) = 2 THEN as_int(v[2]) ELSE nullopt
       IN parsed(c, Len(v) = 2 /\ od.has_value, "Derivative parameter error",
                 [c.conf EXCEPT !.param_derivative_degree = <<od.value>>])
  ELSE not_matched(c)

\* cmd_transform(args, conf); arg is the value of -t split on ':'.
cmd_transform_body(c0, arg) ==
  IF arg = NoArg
  THEN returns([c0 EXCEPT !.conf.transform_name = "default"], "cmd_transform")
  ELSE LET c == [c0 EXCEPT !.conf.transform_name = arg[1]]
           unknown(x) ==
             [matched |-> TRUE,
              c |-> IF x.conf.transform_name = "default" THEN x
                    ELSE do_exit(x, 1, <<"Unknown transform", arg[1]>>)]
       IN then_returns(try(t_derivative(arg, c), unknown).c, "cmd_transform")

\* conf.dist_fun is modelled by the window its closure passes to the
\* distance: <<w>>, and <<>> for a closure that passes none.
\* Minkowski -d:modminkowski:<e>
d_minkowski(v, c) ==
  IF v[1] = "modminkowski"
  THEN LET oe == IF Len(v) = 2 THEN as_double(v[2]) ELSE nullopt
       IN parsed(c, Len(v) = 2 /\ oe.has_value, "Minkowski parameter error",
                 [c.conf EXCEPT !.dist_fun = <<>>,
                                !.param_cf_exponent = <<oe.value>>])
  ELSE not_matched(c)

\* Lorentzian -d:lorentzian
d_lorentzian(v, c) ==
  IF v[1] = "lorentzian"
  THEN parsed(c, Len(v) = 1, "Lorentzian parameter error",
              [c.conf EXCEPT !.dist_fun = <<>>])
  ELSE not_matched(c)

\* SBD -d:sbd
d_sbd(v, c) ==
  IF v[1] = "sbd"
  THEN parsed(c, Len(v) = 1, "SBD parameter error",
              [c.conf EXCEPT !.dist_fun = <<>>])
  ELSE not_matched(c)

\* size_t param_window = utils::NO_WINDOW;
\* if (ow.value()>=0) { param_window = ow.value(); }
window_from_zero_excluded(ow) ==
  IF ow.value > 0 THEN ow.value ELSE NO_WINDOW
param_window(ow) ==
  IF ow.value >= 0 THEN ow.value ELSE NO_WINDOW

\* conf.param_window = {-1};
\* if (ow.value()>=0) { conf.param_window = ow.value(); }
conf_param_window(ow) ==
  IF ow.value >= 0 THEN <<ow.value>> ELSE <<-1>>

\* DTW -d:dtw:<e>:<w>; dist_fun is the window its closure captures.
d_dtw(v, c) ==
  IF v[1] = "dtw"
  THEN LET oe == IF Len(v) = 3 THEN as_double(v[2]) ELSE nullopt
           ow == IF Len(v) = 3 THEN as_int(v[3]) ELSE nullopt
       IN parsed(c, Len(v) = 3 /\ oe.has_value /\ ow.has_value, "DTW parameter error",
                 [c.conf EXCEPT !.dist_fun = <<param_window(ow)>>,
                                !.param_cf_exponent = <<oe.value>>,
                                !.param_window = conf_param_window(ow)])
  ELSE not_matched(c)

\* ADTW -d:adtw:<e>:<omega>
d_adtw(v, c) ==
  IF v[1] = "adtw"
  THEN LET oe == IF Len(v) = 3 THEN as_double(v[2]) ELSE nullopt
           oo == IF Len(v) = 3 THEN as_double(v[3]) ELSE nullopt
       IN parsed(c, Len(v) = 3 /\ oe.has_value /\ oo.has_value, "ADTW parameter error",
                 [c.conf EXCEPT !.dist_fun = <<>>,
                                !.param_cf_exponent = <<oe.value>>,
                                !.param_omega = <<oo.value>>])
  ELSE not_matched(c)

\* WDTW -d:wdtw:<e>:<g>
d_wdtw(v, c) ==
  IF v[1] = "wdtw"
  THEN LET oe == IF Len(v) = 3 THEN as_double(v[2]) ELSE nullopt
           og == IF Len(v) = 3 THEN as_double(v[3]) ELSE nullopt
       IN parsed(c, Len(v) = 3 /\ oe.has_value /\ og.has_value, "WDTW parameter error",
                 [c.conf EXCEPT !.dist_fun = <<>>,
                                !.param_cf_exponent = <<oe.value>>,
                                !.param_g = <<og.value>>])
  ELSE not_matched(c)

\* ERP -d:erp:<e>:<gv>:<w>
d_erp(v, c) ==
  IF v[1] = "erp"
  THEN LET oe == IF Len(v) = 4 THEN as_double(v[2]) ELSE nullopt
           ogv == IF Len(v) = 4 THEN as_double(v[3]) ELSE nullopt
           ow == IF Len(v) = 4 THEN as_int(v[4]) ELSE nullopt
       IN parsed(c, Len(v) = 4 /\ oe.has_value /\ ogv.has_value /\ ow.has_value,
                 "ERP parameter error",
                 [c.conf EXCEPT !.dist_fun = <<param_window(ow)>>,
                                !.param_cf_exponent = <<oe.value>>,
                                !.param_gap_value = <<ogv.value>>,
                                !.param_window = conf_param_window(ow)])
  ELSE not_matched(c)

\* LCSS -d:lcss:<epsilon>:<w>
d_lcss(v, c) ==
  IF v[1] = "lcss"
  THEN LET oe == IF Len(v) = 3 THEN as_double(v[2]) ELSE nullopt
           ow == IF Len(v) = 3 THEN as_long(v[3]) ELSE nullopt
       IN parsed(c, Len(v) = 3 /\ oe.has_value /\ ow.has_value, "LCSS parameter error",
                 [c.conf EXCEPT !.dist_fun = <<param_window(ow)>>,
                                !.param_epsilon = <<oe.value>>,
                                !.param_window = <<param_window(ow)>>])
  ELSE not_matched(c)

\* MSM -d:msm:<c>
d_msm(v, c) ==
  IF v[1] = "msm"
  THEN LET oc == IF Len(v) = 2 THEN as_double(v[2]) ELSE nullopt
       IN parsed(c, Len(v) = 2 /\ oc.has_value, "MSM parameter error",
                 [c.conf EXCEPT !.dist_fun = <<>>,
                                !.param_c = <<oc.value>>])
  ELSE not_matched(c)

\* cmd_dist(args, conf); arg is the value of -d split on ':'.
cmd_dist_body(c0, arg) ==
  IF arg = NoArg
  THEN do_exit(c0, 1, <<"specify a distance to use with '-d'">>)
  ELSE LET c == [c0 EXCEPT !.conf.dist_name = arg[1]]
           unknown(x) ==
             [matched |-> TRUE, c |-> do_exit(x, 1, <<"Unknown distance", arg[1]>>)]
           d8(x) == try(d_msm(arg, x), unknown)
           d7(x) == try(d_lcss(arg, x), d8)
           d6(x) == try(d_erp(arg, x), d7)
           d5(x) == try(d_wdtw(arg, x), d6)
           d4(x) == try(d_adtw(arg, x), d5)
           d3(x) == try(d_dtw(arg, x), d4)
           d2(x) == try(d_sbd(arg, x), d3)
           d1(x) == try(d_lorentzian(arg, x), d2)
       IN then_returns(try(d_minkowski(arg, c), d1).c, "cmd_dist")

\* The words a flag can be followed by: a name and up to n parameters.
words(names, tokens, n) ==
  UNION {{<<name>> \o params : params \in [1..m -> tokens]} : name \in names, m \in 0..n}

NormalisationArgs ==
  {NoArg} \cup words({"meannorm", "minmax", "unitlength", "zscore", "default", "scale"},
                    {"1", "x"}, 2)
TransformArgs ==
  {NoArg} \cup words({"derivative", "default", "integral"}, {"1", "0.5", "x"}, 2)
DistArgs ==
  {NoArg} \cup words({"modminkowski", "lorentzian", "sbd", "dtw", "adtw", "wdtw",
                      "erp", "lcss", "msm", "twe", "euclidean"},
                    {"-1", "0", "1", "0.5", "x"}, 3)

\* What the usage promises: the parameters each name takes, "f" a float
\* and "i" an integer.
is_float(t) == t \in {"-1", "0", "1", "0.5"}
is_int(t) == t \in {"-1", "0", "1"}
well_formed(v, kinds) ==
  /\ Len(v) = Len(kinds) + 1
  /\ \A n \in 1..Len(kinds) :
       IF kinds[n] = "f" THEN is_float(v[n + 1]) ELSE is_int(v[n + 1])

\* The arguments the usage does not allow.
k_error(a_k) == a_k # NoArg /\ a_k[1] <= 0
normalisation_error(v) ==
  /\ v # NoArg
  /\ CASE v[1] \in {"meannorm", "unitlength", "zscore"} -> ~well_formed(v, <<>>)
       [] v[1] = "minmax" -> ~well_formed(v, <<>>) /\ ~well_formed(v, <<"f", "f">>)
       [] v[1] = "default" -> FALSE
       [] OTHER -> TRUE
transform_error(v) ==
  /\ v # NoArg
  /\ CASE v[1] = "derivative" -> ~well_formed(v, <<"i">>)
       [] v[1] = "default" -> FALSE
       [] OTHER -> TRUE
dist_error(v) ==
  \/ v = NoArg
  \/ CASE v[1] \in {"modminkowski", "msm"} -> ~well_formed(v, <<"f">>)
       [] v[1] \in {"lorentzian", "sbd"} -> ~well_formed(v, <<>>)
       [] v[1] \in {"dtw", "lcss"} -> ~well_formed(v, <<"f", "i">>)
       [] v[1] \in {"adtw", "wdtw"} -> ~well_formed(v, <<"f", "f">>)
       [] v[1] = "erp" -> ~well_formed(v, <<"f", "f", "i">>)
       [] OTHER -> TRUE

\* The parser that was given an argument the usage does not allow.
blame(c, parser, error) == IF error THEN [c EXCEPT !.bad = parser] ELSE c

InitCli ==
  /\ pc = "cli"
  /\ env = MsmEnv(<<>>, <<>>, 0)
  /\ ubArg = PINF
  /\ k = kernel_entry(0, 0, 0, 0)
  /\ call = no_call
  /\ out = no_out
  /\ nn1 = no_scan
  /\ route = no_route
  /\ split = no_split
  /\ cli = [no_cli EXCEPT !.stage = "cmd_optional"]
  /\ tool = no_tool
  /\ loocv = no_loocv
  /\ forest = no_forest

\* cmd_optional on the flags -k, -et, -seed and -out.
cmd_optional ==
  /\ pc = "cli" /\ cli.stage = "cmd_optional" /\ ~cli.exited
  /\ \E a_k \in IntArgs, a_et \in IntArgs, a_seed \in {NoArg, <<MaxSeed>>},
        a_out \in {NoArg, <<"out.json">>},
        hardware_concurrency \in {0, MaxHw}, random_device \in {0, MaxSeed} :
       cli' = cmd_optional_body(
                blame([cli EXCEPT !.stage = "cmd_normalisation",
                                  !.et = a_et, !.hw = hardware_concurrency],
                      "cmd_optional", k_error(a_k)),
                a_k, a_et, a_seed, a_out, hardware_concurrency, random_device)
  /\ UNCHANGED <<pc, distance_vars, split, tool, loocv, forest>>

\* cmd_normalisation on the flag -n.
cmd_normalisation ==
  /\ pc = "cli" /\ cli.stage = "cmd_normalisation" /\ ~cli.exited
  /\ \E arg \in NormalisationArgs :
       cli' = cmd_normalisation_body(
                blame([cli EXCEPT !.stage = "cmd_transform"],
                      "cmd_normalisation", normalisation_error(arg)), arg)
  /\ UNCHANGED <<pc, distance_vars, split, tool, loocv, forest>>

\* cmd_transform on the flag -t.
cmd_transform ==
  /\ pc = "cli" /\ cli.stage = "cmd_transform" /\ ~cli.exited
  /\ \E arg \in TransformArgs :
       cli' = cmd_transform_body(
                blame([cli EXCEPT !.stage = "cmd_dist"],
                      "cmd_transform", transform_error(arg)), arg)
  /\ UNCHANGED <<pc, distance_vars, split, tool, loocv, forest>>

\* cmd_dist on the flag -d.
cmd_dist ==
  /\ pc = "cli" /\ cli.stage = "cmd_dist" /\ ~cli.exited
  /\ \E arg \in DistArgs :
       cli' = cmd_dist_body(
                blame([cli EXCEPT !.stage = "parsed", !.d = arg],
                      "cmd_dist", dist_error(arg)), arg)
  /\ UNCHANGED <<pc, distance_vars, split, tool, loocv, forest>>

NextCli ==
  \/ cmd_optional
  \/ cmd_normalisation
  \/ cmd_transform
  \/ cmd_dist

SpecCli == InitCli /\ [][NextCli]_vars

\* ------------------------------------------------------------------------
\* The LOOCV tool: main of the ADTW/DTW leave-one-out program
\* ------------------------------------------------------------------------

\* What <transform>, <nbthreads> and <distance:cfe> can be on the command
\* line: the two transforms and another word, a number and a word, the two
\* distances and another one, alone or followed by ':' and a token.
ToolTransforms == {"derivative", "raw", "integral"}
ToolThreads == {"1", "0.5", "x"}
ToolDistances == {"ADTW", "DTW", "MSM"}
ToolCfe == {<<>>, <<"1">>, <<"0.5">>, <<"x">>}

\* nlohmann::json, an object as the set of its <<key, value>> members:
\* jv[key] = value, the keys of jv, and the value at a key.
json_set(jv, key, value) ==
  {m \in jv : m[1] # key} \cup {<<key, value>>}

json_keys(jv) == {m[1] : m \in jv}

json_at(jv, key) == (CHOOSE m \in jv : m[1] = key)[2]

\* std::stoi: the integer at the start of the token; none throws
\* std::invalid_argument.
stoi(t) ==
  CASE t = "-1" -> some(-1)
    [] t = "0" -> some(0)
    [] t = "0.5" -> some(0)
    [] t = "1" -> some(1)
    [] OTHER -> nullopt

\* exit(code): the process ends, in the stage it was in.
tool_exit(t, code) == [t EXCEPT !.exited = TRUE, !.code = code]

\* do_exit(code, msg) of the tool: the message goes to the standard error.
tool_do_exit(t, code, msg) ==
  tool_exit([t EXCEPT !.cerr = Append(@, msg)], code)

\* An exception that no handler catches: std::terminate aborts the process,
\* which the shell reports as 128 + SIGABRT.
Aborted == 134
tool_terminate(t) == tool_exit(t, Aborted)

InitTool ==
  /\ pc = "tool"
  /\ env = MsmEnv(<<>>, <<>>, 0)
  /\ ubArg = PINF
  /\ k = kernel_entry(0, 0, 0, 0)
  /\ call = no_call
  /\ out = no_out
  /\ nn1 = no_scan
  /\ route = no_route
  /\ split = no_split
  /\ cli = no_cli
  /\ tool = [no_tool EXCEPT !.stage = "main"]
  /\ loocv = no_loocv
  /\ forest = no_forest

\* main, the command line: fewer than six arguments end the run with the
\* list of the required ones on the standard output; stoi throws on an
\* <nbthreads> that does not start with a number.
tool_cmdline ==
  /\ pc = "tool" /\ tool.stage = "main" /\ ~tool.exited
  /\ \E argc \in {6, 7}, transform \in ToolTransforms, th \in ToolThreads,
        distance_name \in ToolDistances :
       LET t == [tool EXCEPT !.argc = argc]
       IN IF argc < 7
            THEN tool' = tool_exit([t EXCEPT !.cout = Append(@, <<"required">>),
                                             !.failure = "arguments"], 1)
            ELSE IF stoi(th) = nullopt
              THEN tool' = tool_terminate([t EXCEPT !.failure = "nbthreads"])
              ELSE tool' = [t EXCEPT !.stage = "distance",
                                     !.transform = transform,
                                     !.distance_name = distance_name,
                                     !.nbthreads = stoi(th).value]
  /\ UNCHANGED <<pc, distance_vars, split, cli, loocv, forest>>

\* main, "Check distance": the cost function exponent after the ':' must be
\* a double; it is 1 when absent.
tool_check_distance ==
  /\ pc = "tool" /\ tool.stage = "distance" /\ ~tool.exited
  /\ \E v \in ToolCfe :
       IF Len(v) > 0
         THEN IF as_double(v[1]) # nullopt
           THEN tool' = [tool EXCEPT !.stage = "result", !.cfe = as_double(v[1]).value]
           ELSE tool' = tool_exit([tool EXCEPT !.cout = Append(@, <<"cfe">>),
                                               !.failure = "cfe"], 1)
         ELSE tool' = [tool EXCEPT !.stage = "result", !.cfe = 2]
  /\ UNCHANGED <<pc, distance_vars, split, cli, loocv, forest>>

\* outfile << jv << std::endl: a record more in the file, nothing on a
\* stream that did not open.
outfile_write(t, jv) ==
  IF t.opened THEN Append(t.outfile, jv) ELSE t.outfile

\* main, "Prepare result": an empty JSON value and the output file, created
\* empty when <output> can be opened; the stream is never tested.
tool_prepare_result ==
  /\ pc = "tool" /\ tool.stage = "result" /\ ~tool.exited
  /\ \E opened \in BOOLEAN :
       tool' = [tool EXCEPT !.stage = "dataset", !.jv = no_json,
                            !.opened = opened, !.outfile = <<>>]
  /\ UNCHANGED <<pc, distance_vars, split, cli, loocv, forest>>

\* main, "Read dataset": load gives an error message or the train and test
\* sets; sanity_check gives the list of what is wrong with them.
tool_read_dataset ==
  /\ pc = "tool" /\ tool.stage = "dataset" /\ ~tool.exited
  /\ \E loaded \in BOOLEAN, errors \in {<<>>, <<"e">>, <<"e", "f">>} :
       IF ~loaded
         THEN tool' = tool_do_exit([tool EXCEPT !.failure = "load"], 1, <<"load">>)
         ELSE LET jd == json_set(tool.jv, "dataset", "header")
              IN IF errors # <<>>
                   THEN LET je == json_set(json_set(jd, "status", "error"),
                                           "status_message", "errors")
                        IN tool' = tool_exit(
                             [tool EXCEPT !.jv = je,
                                          !.cout = Append(@, <<"json">>),
                                          !.outfile = outfile_write(tool, je),
                                          !.failure = "sanity"], 0)
                   ELSE tool' = [tool EXCEPT !.stage = "transform", !.jv = jd]
  /\ UNCHANGED <<pc, distance_vars, split, cli, loocv, forest>>

\* main, "Check the transform".
tool_transform ==
  /\ pc = "tool" /\ tool.stage = "transform" /\ ~tool.exited
  /\ IF tool.transform = "derivative"
       THEN tool' = [tool EXCEPT !.stage = "iloocv"]
       ELSE IF tool.transform = "raw"
         THEN tool' = [tool EXCEPT !.stage = "iloocv"]
         ELSE tool' = tool_do_exit([tool EXCEPT !.failure = "transform"], 1,
                                   <<"Wrong transform name">>)
  /\ UNCHANGED <<pc, distance_vars, split, cli, loocv, forest>>

\* main, "Prepare the distances/argument range".
tool_iloocv ==
  /\ pc = "tool" /\ tool.stage = "iloocv" /\ ~tool.exited
  /\ IF tool.distance_name = "ADTW"
       THEN tool' = [tool EXCEPT !.stage = "partable"]
       ELSE IF tool.distance_name = "DTW"
         THEN tool' = [tool EXCEPT !.stage = "partable"]
         ELSE tool' = tool_do_exit([tool EXCEPT !.failure = "distance"], 2,
                                   <<"Unknown distance", tool.distance_name>>)
  /\ UNCHANGED <<pc, distance_vars, split, cli, loocv, forest>>

\* main, "Run LOOCV and test": partable fills result_train and result_test.
tool_partable ==
  /\ pc = "tool" /\ tool.stage = "partable" /\ ~tool.exited
  /\ tool' = [tool EXCEPT !.stage = "output", !.computed = TRUE]
  /\ UNCHANGED <<pc, distance_vars, split, cli, loocv, forest>>

\* main, "Output", and the return of main.
tool_output ==
  /\ pc = "tool" /\ tool.stage = "output" /\ ~tool.exited
  /\ LET result == IF tool.computed THEN "result" ELSE "empty"
         js == json_set(json_set(json_set(json_set(tool.jv,
                 "status", "success"),
                 "distance", tool.distance_name),
                 "loocv_train", result),
                 "loocv_test", result)
     IN tool' = tool_exit([tool EXCEPT !.stage = "returned", !.jv = js,
                                       !.cout = @ \o <<<<"output to">>, <<"json">>,
                                                       <<"LOOCV result">>,
                                                       <<"NN1 test result">>>>,
                                       !.outfile = outfile_write(tool, js)], 0)
  /\ UNCHANGED <<pc, distance_vars, split, cli, loocv, forest>>

NextTool ==
  \/ tool_cmdline
  \/ tool_check_distance
  \/ tool_prepare_result
  \/ tool_read_dataset
  \/ tool_transform
  \/ tool_iloocv
  \/ tool_partable
  \/ tool_output

SpecTool == InitTool /\ [][NextTool]_vars

\* ------------------------------------------------------------------------
\* The LOOCV tuner: leave-one-out 1-NN over a parameter array, in parallel
\* ------------------------------------------------------------------------

\* Largest training set, largest pool of workers.
MaxQueries == 3
MaxThreads == 2

\* The rows are points with a label; the distance family caps the distance
\* between two points at its parameter; the parameters are in decreasing
\* order, so that the distance does not grow along P and the last parameter
\* gives ties.
Points == {0, 1, 2}
TrainLabels == {1, 2}
Seeds == {0, 1}
P == <<2, 1>>
K == Len(P)

\* The distance under p, without bound.
delta(p, a, b) == IF abs(a - b) < p THEN abs(a - b) ELSE p

\* The distance under p and the bound cutoff: +inf when above the bound.
dist_p(p, a, b, cutoff) ==
  IF delta(p, a, b) > cutoff THEN PINF ELSE delta(p, a, b)

\* The child PRNG of a work item, seeded from the run seed and the item's
\* identifier, and a label drawn from the ties with it.
child_prng(seed, id) == seed + id

draw(prng, ties) == ties[(prng % Len(ties)) + 1]

\* 1-NN primitive, one candidate: a smaller distance resets the ties, an
\* equal one adds the label if absent.
nn1_update(st, label, d) ==
  IF d < st.bsf
    THEN [bsf |-> d, ties |-> <<label>>]
    ELSE IF d = st.bsf /\ ~contains(st.ties, label)
      THEN [st EXCEPT !.ties = Append(@, label)]
      ELSE st

\* 1-NN primitive over the rows other than i, in the order of the rows, from
\* the state st: the distance calls receive the running best-so-far.
RECURSIVE loo_scan(_, _, _, _, _, _)
loo_scan(points, labels, i, p, j, st) ==
  IF j > Len(points)
    THEN st
    ELSE IF j = i
      THEN loo_scan(points, labels, i, p, j + 1, st)
      ELSE loo_scan(points, labels, i, p, j + 1,
                    nn1_update(st, labels[j], dist_p(p, points[i], points[j], st.bsf)))

\* The label drawn from the ties of a scan; no label when no row was within
\* the bound.
loo_label(st, prng) ==
  IF st.ties = <<>> THEN 0 ELSE draw(prng, st.ties)

\* The tasks of the tuner are the pairs (query row, k), in the order (i, k).
task_row(t) == ((t - 1) \div K) + 1
task_k(t) == ((t - 1) % K) + 1

\* The smallest value of a non-empty set.
least(S) == CHOOSE b \in S : \A o \in S : b <= o

\* The initial bound of a task taken from every parameter already processed
\* for the row, whichever side of x it lies on.
reuse_any(done, bsf, i, x) ==
  LET from == {y \in 1..K : done[i][y]}
  IN IF from = {} THEN PINF ELSE least({bsf[i][y] : y \in from})

\* The initial bound of the task (i, x): the tightest best-so-far of the row
\* under the parameters before x that are already processed, whose distances
\* are not smaller; +inf when there is none.
reuse_bsf(done, bsf, i, x) ==
  LET from == {y \in 1..(x - 1) : done[i][y]}
  IN IF from = {} THEN PINF ELSE least({bsf[i][y] : y \in from})

\* An exchange that stores the new value whatever the counter holds.
exchange_blind(counter, expected, desired) ==
  [ok |-> TRUE, counter |-> desired, expected |-> expected]

\* The step of an atomic add: the new value is stored only when the counter
\* still holds the value read; otherwise the value read is refreshed and the
\* step is taken again.
compare_exchange(counter, expected, desired) ==
  IF counter = expected
    THEN [ok |-> TRUE, counter |-> desired, expected |-> expected]
    ELSE [ok |-> FALSE, counter |-> counter, expected |-> counter]

\* argmax of nc, the lowest index on a tie.
argmax(nc) ==
  CHOOSE b \in 1..Len(nc) :
    /\ \A x \in 1..Len(nc) : nc[x] <= nc[b]
    /\ \A x \in 1..(b - 1) : nc[x] < nc[b]

\* A worker of the pool at work: its task, where it is in it, and the value
\* of the counter it read. The workers at work are a set: which thread runs
\* a task plays no part.
worker(item, step, seen) == [item |-> item, step |-> step, seen |-> seen]

InitPool ==
  /\ pc = "pool"
  /\ env = MsmEnv(<<>>, <<>>, 0)
  /\ ubArg = PINF
  /\ k = kernel_entry(0, 0, 0, 0)
  /\ call = no_call
  /\ out = no_out
  /\ nn1 = no_scan
  /\ route = no_route
  /\ split = no_split
  /\ cli = no_cli
  /\ tool = no_tool
  /\ loocv = [no_loocv EXCEPT !.stage = "idle"]
  /\ forest = no_forest

\* The tuner is given a training set, a seed and a number of threads.
loocv_begin ==
  /\ pc = "pool" /\ loocv.stage = "idle"
  /\ \E n \in 2..MaxQueries, seed \in Seeds, nbthreads \in 1..MaxThreads :
       \E points \in [1..n -> Points], labels \in [1..n -> TrainLabels] :
         loocv' = [loocv EXCEPT !.stage = "running", !.seed = seed,
                                !.nbthreads = nbthreads,
                                !.points = points, !.labels = labels,
                                !.next = 1,
                                !.workers = {},
                                !.nc = [x \in 1..K |-> 0],
                                !.pred = [i \in 1..n |-> [x \in 1..K |-> 0]],
                                !.bsf = [i \in 1..n |-> [x \in 1..K |-> PINF]],
                                !.done = [i \in 1..n |-> [x \in 1..K |-> FALSE]]]
  /\ UNCHANGED <<pc, distance_vars, split, cli, tool, forest>>

\* A free worker takes the next task, in the order (i, k).
loocv_take ==
  /\ pc = "pool" /\ loocv.stage = "running"
  /\ loocv.next <= Len(loocv.points) * K
  /\ Cardinality(loocv.workers) < loocv.nbthreads
  /\ loocv' = [loocv EXCEPT !.workers = @ \cup {worker(loocv.next, "scan", 0)},
                            !.next = @ + 1]
  /\ UNCHANGED <<pc, distance_vars, split, cli, tool, forest>>

\* A worker runs the 1-NN of its task from the bound the processed
\* parameters of the row give, and publishes the best-so-far and the label;
\* it goes on to the count when the label is the label of the row. reused
\* records that the bound was below the distance of a candidate, which the
\* tuner does not store.
loocv_scan ==
  /\ pc = "pool" /\ loocv.stage = "running"
  /\ \E w \in loocv.workers :
       /\ w.step = "scan"
       /\ LET i == task_row(w.item)
              x == task_k(w.item)
              bound == reuse_bsf(loocv.done, loocv.bsf, i, x)
              st == loo_scan(loocv.points, loocv.labels, i, P[x], 1,
                             [bsf |-> bound, ties |-> <<>>])
              label == loo_label(st, child_prng(loocv.seed, i))
              below == \E j \in (1..Len(loocv.points)) \ {i} :
                         delta(P[x], loocv.points[i], loocv.points[j]) > bound
          IN loocv' = [loocv EXCEPT
                         !.pred[i][x] = label,
                         !.bsf[i][x] = st.bsf,
                         !.done[i][x] = TRUE,
                         !.reused = @ \/ below,
                         !.workers = IF label = loocv.labels[i]
                                       THEN (@ \ {w}) \cup {worker(w.item, "add", 0)}
                                       ELSE @ \ {w}]
  /\ UNCHANGED <<pc, distance_vars, split, cli, tool, forest>>

\* Atomic add, the read: the worker reads the count of its parameter.
loocv_load ==
  /\ pc = "pool" /\ loocv.stage = "running"
  /\ \E w \in loocv.workers :
       /\ w.step = "add"
       /\ loocv' = [loocv EXCEPT
                      !.workers = (@ \ {w}) \cup
                                    {worker(w.item, "cas", loocv.nc[task_k(w.item)])}]
  /\ UNCHANGED <<pc, distance_vars, split, cli, tool, forest>>

\* Atomic add, the exchange: one more in nc[k] when the count is still the
\* value read; the worker tries again from the value the count holds
\* otherwise.
loocv_cas ==
  /\ pc = "pool" /\ loocv.stage = "running"
  /\ \E w \in loocv.workers :
       /\ w.step = "cas"
       /\ LET x == task_k(w.item)
              r == compare_exchange(loocv.nc[x], w.seen, w.seen + 1)
          IN loocv' = [loocv EXCEPT
                         !.nc[x] = r.counter,
                         !.workers = IF r.ok
                                       THEN @ \ {w}
                                       ELSE (@ \ {w}) \cup
                                              {worker(w.item, "cas", r.expected)}]
  /\ UNCHANGED <<pc, distance_vars, split, cli, tool, forest>>

\* The pool is joined: the parameter with the most correct rows is selected.
loocv_join ==
  /\ pc = "pool" /\ loocv.stage = "running"
  /\ loocv.next > Len(loocv.points) * K
  /\ loocv.workers = {}
  /\ loocv' = [loocv EXCEPT !.stage = "joined", !.best = argmax(loocv.nc)]
  /\ UNCHANGED <<pc, distance_vars, split, cli, tool, forest>>

\* ------------------------------------------------------------------------
\* The proximity forest: trees trained and evaluated in parallel
\* ------------------------------------------------------------------------

\* Largest number of trees.
MaxTrees == 2

\* The test set: every point, in increasing order.
Queries == sorted(Points)

\* Result(nbclasses): zeros, with weight 0.
make_probabilities_zero(cardinality, proba_at_one, weight) ==
  [probabilities |-> [c \in 1..cardinality |-> 0], weight |-> 0]

\* Result::make_probabilities_one: zeros, and 1 at the index proba_at_one,
\* which the label encoder counts from 0.
make_probabilities_one(cardinality, proba_at_one, weight) ==
  [probabilities |-> [c \in 1..cardinality |-> IF c = proba_at_one + 1 THEN 1 ELSE 0],
   weight |-> weight]

\* The rows of a class, in the order of the training set.
rows_of(labels, label) == sorted({i \in 1..Len(labels) : labels[i] = label})

untrained == [p |-> 0, exemplars |-> <<>>]

\* A tree of one node: a parameter of the distance family and one exemplar
\* per class, drawn with the PRNG of the tree.
tree_train(points, labels, classes, prng) ==
  [p |-> draw(prng, P),
   exemplars |-> [c \in 1..Len(classes) |->
                    points[draw(prng + c, rows_of(labels, classes[c]))]]]

\* 1-NN primitive over the exemplars of the tree, in the order of the classes.
RECURSIVE exemplar_scan(_, _, _, _, _)
exemplar_scan(tree, classes, q, c, st) ==
  IF c > Len(classes)
    THEN st
    ELSE exemplar_scan(tree, classes, q, c + 1,
                       nn1_update(st, classes[c],
                                  dist_p(tree.p, q, tree.exemplars[c], st.bsf)))

\* The query goes to the branch of its nearest exemplar, a leaf of that class.
tree_predict(tree, classes, q, prng) ==
  LET label == draw(prng, exemplar_scan(tree, classes, q, 1,
                                        [bsf |-> PINF, ties |-> <<>>]).ties)
  IN make_probabilities_one(Len(classes), bcm_labels_to_index(classes, label), 1)

\* The sum over the trees 1..t of the probability of class c for query q.
RECURSIVE sum_trees(_, _, _, _)
sum_trees(results, q, c, t) ==
  IF t = 0 THEN 0
  ELSE sum_trees(results, q, c, t - 1) + results[t][q].probabilities[c]

\* The reduction at the forest level: the average of the trees' results with
\* equal weights, as the sums over the number of trees.
forest_average(results, cardinality) ==
  [q \in 1..Len(Queries) |->
     [num |-> [c \in 1..cardinality |-> sum_trees(results, q, c, Len(results))],
      den |-> Len(results)]]

\* PF2018::train: the forest is given the training set of the tuner.
forest_begin ==
  /\ pc = "pool" /\ loocv.stage = "joined" /\ forest.stage = "none"
  /\ \E nb_trees \in 1..MaxTrees :
       forest' = [forest EXCEPT !.stage = "training",
                                !.nb_trees = nb_trees,
                                !.classes = sorted(range(loocv.labels)),
                                !.next = 1,
                                !.workers = {},
                                !.trees = [t \in 1..nb_trees |-> untrained],
                                !.results = [t \in 1..nb_trees |-> <<>>]]
  /\ UNCHANGED <<pc, distance_vars, split, cli, tool, loocv>>

\* A free worker takes the next tree.
forest_take ==
  /\ pc = "pool" /\ forest.stage \in {"training", "predicting"}
  /\ forest.next <= forest.nb_trees
  /\ Cardinality(forest.workers) < loocv.nbthreads
  /\ forest' = [forest EXCEPT !.workers = @ \cup {forest.next}, !.next = @ + 1]
  /\ UNCHANGED <<pc, distance_vars, split, cli, tool, loocv>>

\* A worker ends the training of its tree.
forest_train ==
  /\ pc = "pool" /\ forest.stage = "training"
  /\ \E t \in forest.workers :
       forest' = [forest EXCEPT
                    !.workers = @ \ {t},
                    !.trees[t] = tree_train(loocv.points, loocv.labels, forest.classes,
                                            child_prng(loocv.seed, t))]
  /\ UNCHANGED <<pc, distance_vars, split, cli, tool, loocv>>

\* PF2018::predict, once every tree is trained.
forest_trained ==
  /\ pc = "pool" /\ forest.stage = "training"
  /\ forest.next > forest.nb_trees
  /\ forest.workers = {}
  /\ forest' = [forest EXCEPT !.stage = "predicting", !.next = 1]
  /\ UNCHANGED <<pc, distance_vars, split, cli, tool, loocv>>

\* A worker ends the evaluation of its tree: one result per query.
forest_predict ==
  /\ pc = "pool" /\ forest.stage = "predicting"
  /\ \E t \in forest.workers :
       forest' = [forest EXCEPT
                    !.workers = @ \ {t},
                    !.results[t] =
                      [q \in 1..Len(Queries) |->
                         tree_predict(forest.trees[t], forest.classes, Queries[q],
                                      child_prng(child_prng(loocv.seed, t), q))]]
  /\ UNCHANGED <<pc, distance_vars, split, cli, tool, loocv>>

\* The pool is joined and the results of the trees are reduced.
forest_reduce ==
  /\ pc = "pool" /\ forest.stage = "predicting"
  /\ forest.next > forest.nb_trees
  /\ forest.workers = {}
  /\ forest' = [forest EXCEPT !.stage = "predicted",
                              !.probabilities =
                                forest_average(forest.results, Len(forest.classes))]
  /\ UNCHANGED <<pc, distance_vars, split, cli, tool, loocv>>

NextPool ==
  \/ loocv_begin
  \/ loocv_take
  \/ loocv_scan
  \/ loocv_load
  \/ loocv_cas
  \/ loocv_join
  \/ forest_begin
  \/ forest_take
  \/ forest_train
  \/ forest_trained
  \/ forest_predict
  \/ forest_reduce

SpecPool == InitPool /\ [][NextPool]_vars

\* ------------------------------------------------------------------------
\* Properties of one call of msm
\* ------------------------------------------------------------------------
finite(x) == ~isinf(x) /\ ~isnan(x)

\* The call returned from internal::msm and its preconditions held.
kernel_done == pc = "done" /\ precondition(k.nblines, k.nbcols)

\* C1: for non-empty series with nbcols <= nblines and non-negative step
\* costs, msm with the bound +inf or NaN returns the value of the naive
\* full-matrix dynamic program and never +inf; with a finite bound it
\* returns that value or +inf.
C1_EapEquivalence ==
  kernel_done =>
    LET nv == naive_dp(env, nblines, nbcols)
    IN IF isinf(ubArg) \/ isnan(ubArg)
       THEN k.ret = nv /\ k.ret # PINF
       ELSE k.ret \in {nv, PINF}

\* A call with the bound +inf on three lines in which pruning advanced the
\* start of the lines and the naive value was returned.
C1_Witness ==
  /\ kernel_done
  /\ isinf(ubArg)
  /\ nblines = 3 /\ nbcols >= 2
  /\ k.next_start >= 1
  /\ k.ret = naive_dp(env, nblines, nbcols)
  /\ k.ret > 0

\* C2: internal::msm returns a finite value if and only if the naive value
\* is <= cutoff, and that value is the naive value; otherwise +inf.
C2_FiniteIffWithinCutoff ==
  kernel_done =>
    LET nv == naive_dp(env, nblines, nbcols)
    IN IF nv <= k.cutoff THEN k.ret = nv ELSE k.ret = PINF

\* A call with a finite cutoff equal to the naive value, on at least two
\* columns and with a pruned start: the value is returned, not +inf.
C2_Witness ==
  /\ kernel_done
  /\ finite(k.cutoff) /\ finite(ubArg)
  /\ nbcols >= 2
  /\ k.next_start >= 1
  /\ naive_dp(env, nblines, nbcols) = k.cutoff
  /\ k.ret = k.cutoff

\* C3: for finite bounds UB1 <= UB2 on the same inputs, two finite results
\* are equal, and a finite result under UB2 is the result under UB1 when
\* it is <= UB1, the result under UB1 being +inf otherwise.
C3_MonotoneUB ==
  kernel_done /\ finite(ubArg) =>
    \A ub1 \in 0..ubArg :
      LET r1 == univariate_msm(env.lines, env.cols, env.c, ub1)
      IN /\ (finite(r1) /\ finite(k.ret) => r1 = k.ret)
         /\ (finite(k.ret) => r1 = IF k.ret <= ub1 THEN k.ret ELSE PINF)

\* A finite result under UB2 that a strictly tighter UB1 turns into +inf.
C3_Witness ==
  /\ kernel_done /\ finite(ubArg) /\ finite(k.ret)
  /\ nbcols >= 2
  /\ \E ub1 \in 0..ubArg :
       /\ ub1 < k.ret
       /\ univariate_msm(env.lines, env.cols, env.c, ub1) = PINF

\* ------------------------------------------------------------------------
\* Properties of the comparisons
\* ------------------------------------------------------------------------
\* C4: the distance of a series to itself is 0: msm(A, A, c) with the bound
\* +inf or NaN, erp(s, s, gv, w) and its reference for every window and gap
\* value, twe(s, s, nu, lambda) and its reference for every (nu, lambda),
\* under every upper bound, the bound 0 included.
C4_SelfDistanceZero ==
  out.done /\ call.s1 = call.s2 /\ call.measure \in {"msm", "erp", "twe"} =>
    /\ out.v = 0
    /\ (call.measure = "msm" \/ out.ref = 0)

\* The self distance of a series of MaxLen values that is not constant was
\* evaluated to 0 by the ERP kernel under the window 1 and the default
\* bound, the kernel having left cells of the band out.
C4_Witness ==
  /\ out.done /\ call.s1 = call.s2 /\ Len(call.s1) = MaxLen
  /\ call.measure = "erp" /\ call.q = 1 /\ isinf(call.ub)
  /\ \E n \in 1..MaxLen : call.s1[n] # call.s1[1]
  /\ out.pruned
  /\ out.v = 0 /\ out.ref = 0

\* The value a kernel owes under the upper bound ub when the reference is
\* ref: the reference when it is within the bound, +inf otherwise.
bounded(ref, ub) == IF finite(ub) /\ fgt(ref, ub) THEN PINF ELSE ref

\* C5: the kernels agree with their references on every pair of series,
\* whether or not the pruning triggers: erp with erp_matrix for every window
\* and gap value, with the default bound and with NaN, +inf included when
\* the lengths differ by more than w; twe with twe_matrix for every
\* (nu, lambda), the univariate reference agreeing with the reference on one
\* channel; dtw with dtw_matrix. Under a finite bound the value is the
\* reference when the reference is within the bound and +inf otherwise.
C5_KernelsAgreeWithReferences ==
  out.done /\ call.measure \in {"erp", "twe", "dtw"} =>
    /\ out.v = bounded(out.ref, call.ub)
    /\ (call.measure = "twe" /\ call.dim = 1 => out.ref = out.ref_uni)
    /\ (call.measure = "erp" /\ absdiff(Len(call.s1), Len(call.s2)) > call.q
          => out.v = PINF)

\* A kernel that pruned returned the finite, positive value of its
\* reference: ERP on series of different lengths inside the window.
C5_Witness ==
  /\ out.done /\ call.measure = "erp" /\ out.pruned
  /\ Len(call.s1) # Len(call.s2) /\ call.q >= 1
  /\ out.v = out.ref /\ finite(out.v) /\ out.v > 0

\* ------------------------------------------------------------------------
\* Properties of the 1-NN scans
\* ------------------------------------------------------------------------
\* C6: after every candidate the scan whose distance calls receive the
\* running best-so-far as upper bound, replacing on a strictly smaller
\* result only, holds the index and the distance of the scan over the
\* reference without bound, and so does the scan without bound; no REQUIRE
\* of the tests fails.
C6_ScanKeepsNearestNeighbour ==
  /\ pc # "scan_failed"
  /\ pc \in {"scan_loop", "scan_done"} =>
       /\ nn1.idx_eap = nn1.idx_ref /\ nn1.bsf_eap = nn1.bsf_ref
       /\ nn1.idx = nn1.idx_ref /\ nn1.bsf = nn1.bsf_ref

\* A scan of three candidates over the skeleton shared with msm in which
\* the kernel abandoned a candidate under a finite best-so-far and the last
\* candidate replaced the nearest neighbour.
C6_Witness ==
  /\ pc = "scan_done" /\ nn1.measure = "twe" /\ nn1.i = QueryStride
  /\ nn1.abandoned
  /\ nn1.idx_eap = 2 * CandidateStride /\ nn1.idx_ref = 2 * CandidateStride
  /\ finite(nn1.bsf_eap) /\ nn1.bsf_eap > 0

\* ------------------------------------------------------------------------
\* Symmetry of msm
\* ------------------------------------------------------------------------
\* C7: msm(A, B, c, ub) = msm(B, A, c, ub), the shorter series given first
\* included: the call with the lines not longer than the columns returns,
\* and returns the value of the call with the arguments exchanged.
C7_Symmetric ==
  pc \in {"done", "aborted"} /\ 0 < nblines /\ nblines <= nbcols =>
    /\ pc = "done"
    /\ k.ret = univariate_msm(env.cols, env.lines, env.c, ubArg)

\* ------------------------------------------------------------------------
\* Properties of the routing
\* ------------------------------------------------------------------------
scanning == pc \in {"route_scan", "routed"} /\ route.order # <<>>
set_of(labels) == {labels[n] : n \in 1..Len(labels)}
\* The labels of the exemplars scanned so far are all in the tie list, in
\* the order of the scan.
all_tied == route.labels = route.order

\* C8: during the scan bsf is the smallest distance of the query to the
\* exemplars scanned so far and the tie list holds, without repetition, the
\* labels of the exemplars at that distance; the branch chosen is the
\* branch of a label whose exemplar is at the smallest distance over all
\* the exemplars.
C8_RoutesToNearestExemplar ==
  scanning =>
    /\ route.bsf = route.dmin
    /\ set_of(route.labels) = route.argmin
    /\ Cardinality(route.argmin) = Len(route.labels)
    /\ (pc = "routed" => \E l \in route.argmin : route.branch = labels_to_index(l))

\* A query routed to the branch of the second exemplar scanned, strictly
\* nearer than the first, at a finite distance that is not 0.
C8_Witness ==
  /\ pc = "routed" /\ route.gen = "DTWFull"
  /\ route.labels = <<route.order[NbClasses]>>
  /\ route.bsf > 0 /\ finite(route.bsf)
  /\ route.branch = labels_to_index(route.order[NbClasses])

\* C9 as stated: when every distance is +inf the row goes to the branch of
\* the largest label, whatever the PRNG draws.
C9_LargestLabelFallback ==
  pc = "routed" /\ route.dmin = PINF => route.branch = labels_to_index(NbClasses)

\* C9: when the distance of a row to every exemplar is +inf, +inf == +inf
\* puts the label of every exemplar in the tie list, in the order of the
\* scan, and the branch is the one of the label the PRNG draws among them.
C9_AllInfiniteTies ==
  scanning /\ route.dmin = PINF =>
    /\ all_tied
    /\ (pc = "routed" => \E l \in set_of(route.order) : route.branch = labels_to_index(l))

\* Every distance was +inf and the row went to a branch that is not the
\* one of the largest label.
C9_Witness ==
  /\ pc = "routed" /\ route.dmin = PINF
  /\ Len(route.labels) = NbClasses
  /\ route.branch # labels_to_index(NbClasses)

\* C10: a distance of +inf never occurs while routing: for every splitter
\* the generators draw and every pair of an exemplar and a routed series,
\* of different lengths included, the distance computed with the bound
\* +inf is finite.
C10_NeverInfinite ==
  scanning => route.d # PINF

\* When the distance is +inf: the distance of an exemplar to a routed series
\* under the bound +inf is +inf exactly when the generator has a window
\* (SG_1NN_DTW, SG_1NN_ERP) and the two lengths differ by more than the
\* window drawn, or is the direct alignment (SG_1NN_DA) and the two lengths
\* differ; it is finite on series of equal lengths.
InfiniteIffWindowInfeasible ==
  scanning =>
    (route.d = PINF <=>
       \/ route.gen \in {"DTW", "ERP"} /\ absdiff(route.len, Len(route.query)) > route.w
       \/ route.gen = "DA" /\ route.len # Len(route.query))

\* An exemplar longer than the routed series by more than the window drawn
\* by SG_1NN_ERP, at +inf, after an exemplar at a finite distance.
C10_Witness ==
  /\ scanning /\ route.gen = "ERP"
  /\ route.d = PINF /\ finite(route.bsf)
  /\ route.len - Len(route.query) > route.w

\* ------------------------------------------------------------------------
\* Properties of the children of a node
\* ------------------------------------------------------------------------
\* The rows of a child, over all its labels.
child_rows(m) == UNION {range(m[l]) : l \in DOMAIN m}

\* C11: generate returns one child by-class map per class of the incoming
\* map, in the order of bcm.classes(); no child is an empty map: the child
\* of a branch that received no row is (label of the branch -> empty list).
C11_OneChildPerClass ==
  pc = "split_done" =>
    /\ Len(split.v_bcm) = Len(split.classes)
    /\ \A n \in 1..Len(split.classes) :
         /\ DOMAIN split.v_bcm[n] # {}
         /\ (split.result_bcmvec[n] = empty_map
               => split.v_bcm[n] = [l \in {split.classes[n]} |-> <<>>])
         /\ (split.result_bcmvec[n] # empty_map
               => split.v_bcm[n] = split.result_bcmvec[n])
    /\ UNION {child_rows(split.v_bcm[n]) : n \in 1..Len(split.v_bcm)}
         = 0..(Len(split.real) - 1)

\* Three classes, every row routed to the branch of the largest label: the
\* two other children hold their own label and no row.
C11_Witness ==
  /\ pc = "split_done" /\ Len(split.classes) = 3
  /\ child_rows(split.v_bcm[3]) = 0..(MaxRows - 1)
  /\ split.v_bcm[1] = [l \in {split.classes[1]} |-> <<>>]

\* ------------------------------------------------------------------------
\* Empty series
\* ------------------------------------------------------------------------
\* C12: msm returns 0 when both lengths are zero and +inf when exactly one
\* is, whatever the upper bound (finite, +inf, NaN); the call returns
\* before the cutoff is computed and before internal::msm: no cost closure
\* is evaluated and the buffer is left as it was.
C12_EmptySeries ==
  pc = "done" /\ (nblines = 0 \/ nbcols = 0) =>
    LET expected == IF nblines = 0 /\ nbcols = 0 THEN 0 ELSE PINF
    IN /\ k.ret = expected
       /\ univariate_msm(env.lines, env.cols, env.c, ubArg) = expected
       /\ k = kreturn(kernel_entry(0, 0, 0, 0), expected)
       /\ DOMAIN k.buffer = {}

\* No line and MaxLen columns under a finite bound: +inf.
C12_Witness ==
  /\ pc = "done" /\ nblines = 0 /\ nbcols = MaxLen
  /\ finite(ubArg) /\ k.ret = PINF

\* ------------------------------------------------------------------------
\* Properties of the command line of the NN-k tool
\* ------------------------------------------------------------------------
\* The parsers in the order they run.
Parsers == <<"cmd_optional", "cmd_normalisation", "cmd_transform", "cmd_dist">>

\* C13: every argument error (no -d, unknown distance, normalisation or
\* transform, wrong number of parameters, parameter that does not parse,
\* -k <= 0) ends the process with the exit code 1 after the usage and then
\* the message were written to the standard error; the parser given the
\* error does not return, and no parser runs after it.
C13_ArgumentErrorExits ==
  /\ cli.bad # "" =>
       /\ cli.exited
       /\ \A n \in 1..Len(Parsers) :
            Parsers[n] = cli.bad => cli.returned = SubSeq(Parsers, 1, n - 1)
  /\ cli.exited =>
       /\ cli.code = 1
       /\ Len(cli.cerr) = 2 /\ cli.cerr[1] = <<"usage">> /\ cli.cerr[2] # <<"usage">>
       /\ cli.cout = <<>>

\* -d:erp with two parameters after three parsers returned: exit code 1.
C13_Witness ==
  /\ cli.bad = "cmd_dist" /\ cli.exited /\ cli.code = 1
  /\ cli.conf.dist_name = "erp"
  /\ cli.cerr = << <<"usage">>, <<"ERP parameter error">> >>
  /\ Len(cli.returned) = 3

\* C14: with -et:<n>, every n <= 0 (and no -et) selects the number of
\* threads detected and every n > 0 sets the number of threads to n; the
\* number of threads is then at least 1.
C14_ThreadsAutoDetected ==
  cli.stage # "cmd_optional" /\ cli.bad # "cmd_optional" =>
    LET n == get_parameter(cli.et, 0)
    IN /\ ~cli.exited \/ cli.bad # ""
       /\ contains(cli.returned, "cmd_optional")
       /\ cli.conf.nbthreads = IF n <= 0 THEN cli.hw + 2 ELSE n
       /\ cli.conf.nbthreads >= 1

\* What -et does: no -et and n = 0 give the number of threads detected
\* plus 2, n > 0 gives n threads, and n < 0 ends the process with the exit
\* code 1.
EtZeroAutoNegativeExits ==
  cli.stage # "cmd_optional" /\ cli.bad # "cmd_optional" =>
    LET n == get_parameter(cli.et, 0)
    IN IF n < 0
       THEN cli.exited /\ cli.code = 1 /\ cli.returned = <<>> /\ cli.conf.nbthreads = 0
       ELSE /\ contains(cli.returned, "cmd_optional")
            /\ cli.conf.nbthreads = IF n = 0 THEN cli.hw + 2 ELSE n
            /\ cli.conf.nbthreads >= 1

\* -et:-1 ended the process.
C14_Witness ==
  /\ cli.et = <<-1>> /\ cli.bad = ""
  /\ cli.exited /\ cli.code = 1 /\ cli.conf.nbthreads = 0

\* ------------------------------------------------------------------------
\* The LOOCV tool: exit codes and the JSON record
\* ------------------------------------------------------------------------

\* The errors of the tool's interface.
ToolErrors == {"arguments", "cfe", "load", "sanity", "transform", "distance"}

\* C15: the LOOCV tool ends with exit code 1 on every error (too few
\* arguments, non-numeric cfe, load failure, sanity-check failure, wrong
\* transform name, distance other than ADTW or DTW) and with exit code 0 only
\* when the LOOCV run succeeded.
C15_ExitOneOnError ==
  tool.exited =>
    /\ tool.failure \in ToolErrors => tool.code = 1
    /\ tool.code = 0 => tool.failure = "" /\ tool.computed

\* A run whose dataset fails the sanity check has ended with exit code 0.
C15_Witness ==
  /\ tool.exited
  /\ tool.failure = "sanity"
  /\ tool.code = 0
  /\ ~tool.computed

\* The exit codes main gives: 0 after a failed sanity check, 2 for an unknown
\* distance, an abort for an <nbthreads> that is not a number, 1 for the
\* other errors and 0 for a run that returned.
ToolExitCodes ==
  tool.exited =>
    tool.code = CASE tool.failure = "sanity" -> 0
                  [] tool.failure = "distance" -> 2
                  [] tool.failure = "nbthreads" -> Aborted
                  [] tool.failure \in ToolErrors -> 1
                  [] OTHER -> 0

\* A JSON object the interface allows in the output file.
json_record(j) ==
  /\ "status" \in json_keys(j)
  /\ json_at(j, "status") \in {"success", "error"}
  /\ json_at(j, "status") = "error" => "status_message" \in json_keys(j)
  /\ \A f \in {"loocv_train", "loocv_test"} :
       f \in json_keys(j) =>
         json_at(j, "status") = "success" /\ json_at(j, f) = "result"

\* C16: every run of the LOOCV tool that gets past argument parsing writes
\* exactly one JSON object to the output file, with status 'success' or
\* 'error' and status_message when 'error'; loocv_train and loocv_test are
\* written only with status 'success' and after the LOOCV computation.
C16_OneJsonRecord ==
  /\ tool.exited /\ tool.stage \notin {"main", "distance"} =>
       Len(tool.outfile) = 1 /\ json_record(tool.outfile[1])
  /\ \A n \in 1..Len(tool.outfile) :
       json_record(tool.outfile[n])
         /\ ("loocv_train" \in json_keys(tool.outfile[n]) => tool.computed)

\* A run past argument parsing whose dataset did not load has ended with an
\* output file that holds no object.
C16_Witness ==
  /\ tool.exited
  /\ tool.opened
  /\ tool.failure = "load"
  /\ tool.outfile = <<>>

\* The records main writes: one, well formed, by a run that returned or whose
\* dataset failed the sanity check, when the output file opened, and none by
\* any other run.
ToolJsonRecords ==
  /\ Len(tool.outfile) = IF tool.opened /\ (tool.stage = "returned" \/ tool.failure = "sanity")
                           THEN 1 ELSE 0
  /\ \A n \in 1..Len(tool.outfile) :
       /\ json_record(tool.outfile[n])
       /\ "loocv_train" \in json_keys(tool.outfile[n]) <=> tool.stage = "returned"
       /\ "loocv_train" \in json_keys(tool.outfile[n]) => tool.computed

\* ------------------------------------------------------------------------
\* The LOOCV tuner: counts and selected parameter
\* ------------------------------------------------------------------------

\* The labels of the rows nearest to row i under p, i left out.
nearest_rows(points, i, p) ==
  LET others == (1..Len(points)) \ {i}
  IN {c \in others :
        \A o \in others : delta(p, points[i], points[c]) <= delta(p, points[i], points[o])}

nearest_labels(points, labels, i, p) ==
  {labels[j] : j \in nearest_rows(points, i, p)}

\* The rows whose leave-one-out label under the x-th parameter is theirs.
correct_rows(x) ==
  {i \in 1..Len(loocv.points) : loocv.pred[i][x] = loocv.labels[i]}

\* C17: for a training set of size N and parameters p_0..p_{K-1}, the tuner
\* yields for every k a count nc[k] in [0, N], the number of rows whose
\* leave-one-out 1-NN label under p_k is their label, the label of a nearest
\* row whatever bound the task started from, and selects the smallest k
\* whose nc[k] is maximal.
C17_CountsAndLowestArgmax ==
  loocv.stage = "joined" =>
    /\ \A x \in 1..K :
         /\ loocv.nc[x] \in 0..Len(loocv.points)
         /\ loocv.nc[x] = Cardinality(correct_rows(x))
         /\ \A i \in 1..Len(loocv.points) :
              /\ loocv.pred[i][x] \in
                   nearest_labels(loocv.points, loocv.labels, i, P[x])
              /\ \A j \in nearest_rows(loocv.points, i, P[x]) :
                   loocv.bsf[i][x] = delta(P[x], loocv.points[i], loocv.points[j])
    /\ loocv.best \in 1..K
    /\ \A x \in 1..K : loocv.nc[x] <= loocv.nc[loocv.best]
    /\ \A x \in 1..(loocv.best - 1) : loocv.nc[x] < loocv.nc[loocv.best]

\* A tuner whose tasks started from a bound below the distance of a
\* candidate has selected the first of two parameters with the same count,
\* on a training set where some rows are right and some are wrong.
C17_Witness ==
  /\ loocv.stage = "joined"
  /\ loocv.reused
  /\ loocv.best = 1
  /\ loocv.nc[1] = loocv.nc[2]
  /\ loocv.nc[1] \in 1..(Len(loocv.points) - 1)

\* ------------------------------------------------------------------------
\* The pool: results that do not depend on the schedule
\* ------------------------------------------------------------------------

\* What the training set and the seed alone give. The ties of row i under
\* p: the labels of its nearest rows, in the order of their first rows.
first_row(points, labels, i, p, label) ==
  least({j \in nearest_rows(points, i, p) : labels[j] = label})

ordered_ties(points, labels, i, p) ==
  LET L == nearest_labels(points, labels, i, p)
  IN CHOOSE t \in [1..Cardinality(L) -> L] :
       \A a \in 1..Cardinality(L) : \A b \in 1..Cardinality(L) :
         a < b => first_row(points, labels, i, p, t[a])
                    < first_row(points, labels, i, p, t[b])

\* The counts of the tuner.
expected_nc(x) ==
  Cardinality({i \in 1..Len(loocv.points) :
                 draw(child_prng(loocv.seed, i),
                      ordered_ties(loocv.points, loocv.labels, i, P[x]))
                   = loocv.labels[i]})

\* The results of tree t: for every query the class of a nearest exemplar,
\* drawn among the nearest ones in the order of the classes.
expected_results(t) ==
  LET classes == sorted(range(loocv.labels))
      tree == tree_train(loocv.points, loocv.labels, classes,
                         child_prng(loocv.seed, t))
      near(q) == {c \in 1..Len(classes) :
                    \A o \in 1..Len(classes) :
                      delta(tree.p, Queries[q], tree.exemplars[c])
                        <= delta(tree.p, Queries[q], tree.exemplars[o])}
      label(q) == classes[draw(child_prng(child_prng(loocv.seed, t), q),
                               sorted(near(q)))]
  IN [q \in 1..Len(Queries) |->
        [probabilities |-> [c \in 1..Len(classes) |->
                              IF classes[c] = label(q) THEN 1 ELSE 0],
         weight |-> 1]]

\* C18: the aggregated results do not depend on the schedule: for a fixed
\* seed, every interleaving of the work items and every number of worker
\* threads gives the same final nc[k] vector and the same forest probability
\* matrix, with no increment lost.
C18_ScheduleIndependent ==
  /\ loocv.stage = "joined" =>
       \A x \in 1..K : loocv.nc[x] = expected_nc(x)
  /\ forest.stage = "predicted" =>
       forest.probabilities =
         forest_average([t \in 1..forest.nb_trees |-> expected_results(t)],
                        Cardinality(range(loocv.labels)))

\* A worker is about to exchange the count it read for one more, and the
\* count has since been added to by another worker.
C18_Witness ==
  /\ loocv.stage = "running"
  /\ \E w \in loocv.workers :
       w.step = "cas" /\ w.seen < loocv.nc[task_k(w.item)]

\* ------------------------------------------------------------------------
\* The proximity forest: probability rows
\* ------------------------------------------------------------------------

\* The sum of the first n entries of a row.
RECURSIVE row_sum(_, _)
row_sum(row, n) == IF n = 0 THEN 0 ELSE row_sum(row, n - 1) + row[n]

\* C19: every probability row predicted by the forest sums to 1 and is
\* non-zero only at indices of classes present in training: a leaf result
\* built by make_probabilities_one has exactly one entry 1, at an index below
\* the cardinality, and 0 elsewhere, and the equal-weight average over the
\* trees keeps the row sum at 1.
C19_RowsSumToOne ==
  /\ \A t \in 1..Len(forest.results) :
       \A q \in 1..Len(forest.results[t]) :
         LET row == forest.results[t][q].probabilities
         IN /\ Len(row) = Cardinality(range(loocv.labels))
            /\ \E c \in 1..Len(row) :
                 /\ row[c] = 1
                 /\ forest.classes[c] \in range(loocv.labels)
                 /\ \A o \in 1..Len(row) : o # c => row[o] = 0
  /\ forest.stage = "predicted" =>
       /\ Len(forest.probabilities) = Len(Queries)
       /\ \A q \in 1..Len(forest.probabilities) :
            LET row == forest.probabilities[q]
            IN /\ Len(row.num) = Cardinality(range(loocv.labels))
               /\ row.den = forest.nb_trees
               /\ row_sum(row.num, Len(row.num)) = row.den
               /\ \A c \in 1..Len(row.num) :
                    row.num[c] # 0 => forest.classes[c] \in range(loocv.labels)

\* A forest of two trees has given a query two classes, half each.
C19_Witness ==
  /\ forest.stage = "predicted"
  /\ forest.nb_trees = 2
  /\ \E q \in 1..Len(forest.probabilities) :
       forest.probabilities[q].num = <<1, 1>>

\* ------------------------------------------------------------------------
\* internal::msm: the working bound ub
\* ------------------------------------------------------------------------

\* The cost of the last alignment: the smallest of the three steps into the
\* last cell.
last_alignment(e, nl, nc) ==
  min3(dist(e, nl - 1, nc - 1), dist_cols(e, nl - 1, nc - 1), dist_lines(e, nl - 1, nc - 1))

\* internal::msm has computed ub, for a finite cutoff.
ub_computed ==
  /\ pc \in {"rows", "done"}
  /\ 1 <= k.nbcols /\ k.nbcols <= k.nblines
  /\ ~isinf(k.cutoff) /\ ~isnan(k.cutoff)

\* C20: in internal::msm, for a finite cutoff and nbcols >= 2, ub is
\* nextafter(cutoff, +inf) minus the smallest of the three step costs into
\* the last cell, so it is tighter than cutoff when that cost is positive;
\* for nbcols = 1, ub is cutoff.
C20_UbMinusLastAlignment ==
  ub_computed =>
    IF k.nbcols >= 2
      THEN LET la == last_alignment(env, k.nblines, k.nbcols)
           IN /\ k.ub = nextafter(k.cutoff, PINF) - la
              /\ la > 0 => k.ub <= k.cutoff
      ELSE k.ub = k.cutoff

\* The last alignment costs something, and ub is above the cutoff.
C20_Witness ==
  /\ ub_computed
  /\ k.nbcols >= 2
  /\ last_alignment(env, k.nblines, k.nbcols) > 0
  /\ k.ub = k.cutoff + 1

\* The bound internal::msm works with: the float after cutoff whatever the
\* cost of the last alignment, and cutoff for a single column.
UbIsNextAfterCutoff ==
  ub_computed =>
    k.ub = IF k.nbcols >= 2 THEN nextafter(k.cutoff, PINF) ELSE k.cutoff

\* ------------------------------------------------------------------------
\* internal::msm: the pruning window between two rows
\* ------------------------------------------------------------------------

\* The full matrix of the naive dynamic program.
naive_matrix(e, nl, nc) ==
  LET cell(M, i, j) ==
        IF i = 0 /\ j = 0 THEN dist(e, 0, 0)
        ELSE IF i = 0 THEN M[0, j - 1] + dist_cols(e, 0, j)
        ELSE IF j = 0 THEN M[i - 1, 0] + dist_lines(e, i, 0)
        ELSE min3(M[i - 1, j - 1] + dist(e, i, j),
                  M[i, j - 1] + dist_cols(e, i, j),
                  M[i - 1, j] + dist_lines(e, i, j))
  IN fill_matrix(nl, nc, cell)

\* The kernel is at the start of an iteration of the main loop,
\* for (; i<nblines; ++i): the row k.i - 1 is in the buffer at base c, the
\* swap is still to come.
row_start ==
  /\ pc = "rows"
  /\ k.i < k.nblines

\* C21: at the start of every iteration of the main loop of internal::msm,
\* next_start <= prev_pp <= nbcols, every cell of the previous row at a
\* column < next_start or >= prev_pp has a naive value > ub, and every cell
\* the previous row kept (in next_start..prev_pp-1) whose stored value is
\* <= ub holds its naive value.
C21_PruningWindow ==
  row_start =>
    LET M == naive_matrix(env, k.nblines, k.nbcols)
    IN /\ k.next_start <= k.prev_pp
       /\ k.prev_pp <= k.nbcols
       /\ \A j \in 0..(k.nbcols - 1) :
            /\ (j < k.next_start \/ j >= k.prev_pp) => M[k.i - 1, j] > k.ub
            /\ (k.next_start <= j /\ j < k.prev_pp /\ k.buffer[k.c + j] <= k.ub)
                 => k.buffer[k.c + j] = M[k.i - 1, j]

\* C21 as stated, for every column of the previous row: a slot of the buffer
\* holding a value <= ub holds the naive value of its cell.
C21_EveryStoredValue ==
  row_start =>
    LET M == naive_matrix(env, k.nblines, k.nbcols)
    IN /\ k.next_start <= k.prev_pp
       /\ k.prev_pp <= k.nbcols
       /\ \A j \in 0..(k.nbcols - 1) :
            /\ (j < k.next_start \/ j >= k.prev_pp) => M[k.i - 1, j] > k.ub
            /\ k.buffer[k.c + j] <= k.ub => k.buffer[k.c + j] = M[k.i - 1, j]

\* After a row of the main loop the window is pruned on both sides.
C21_Witness ==
  /\ row_start
  /\ k.i >= 2
  /\ 1 <= k.next_start
  /\ k.next_start < k.prev_pp
  /\ k.prev_pp < k.nbcols

\* ------------------------------------------------------------------------
\* internal::msm: early abandon
\* ------------------------------------------------------------------------

\* No cell of row i has a naive value <= ub.
row_above_ub(i) ==
  \A j \in 0..(k.nbcols - 1) : naive_matrix(env, k.nblines, k.nbcols)[i, j] > k.ub

\* C22: internal::msm abandons as soon as a row leaves no cell <= ub: the
\* iteration of that row returns, +inf or the candidate of the last cell
\* when it is <= cutoff, and no later row is computed; a row that leaves a
\* cell <= ub does not return.
C22_AbandonWithinRow ==
  [][row_start =>
       IF row_above_ub(k.i)
         THEN /\ k'.returned /\ pc' = "done"
              /\ k'.i = k.i
              /\ \/ k'.ret = PINF
                 \/ /\ k'.i = k.nblines - 1 /\ k'.j = k.nbcols - 1
                    /\ k'.ret = k'.cost /\ fle(k'.ret, k.cutoff)
         ELSE /\ ~k'.returned /\ pc' = "rows"
              /\ k'.i = k.i + 1
              /\ k'.next_start < k'.prev_pp]_vars

\* The kernel has abandoned in its third row, having kept cells of the two
\* rows before.
C22_Witness ==
  /\ kernel_done
  /\ k.returned /\ k.ret = PINF
  /\ k.nbcols >= 2
  /\ k.i = 2 /\ k.i < k.nblines
  /\ row_above_ub(k.i)

\* ------------------------------------------------------------------------
\* Properties of the rows of the children
\* ------------------------------------------------------------------------
\* Two exemplars of different classes hold the same series.
exemplars_collide ==
  \E a, b \in range(split.train_indexset) :
    /\ a # b
    /\ split.train_dataset[a + 1] = split.train_dataset[b + 1]

\* C23: for an incoming map of at least two classes, every child returned
\* by generate has strictly fewer rows than the incoming map, whatever
\* pick_one draws among the labels in a tie.
C23_ChildrenStrictlySmaller ==
  pc = "split_done" =>
    \A n \in 1..Len(split.v_bcm) :
      Cardinality(child_rows(split.v_bcm[n])) < Len(split.real)

\* Two classes of identical series: both exemplars are at distance 0 of
\* every row, pick_one sent every row to one branch, and that child has
\* all the rows of the incoming map.
C23_Witness ==
  /\ pc = "split_done"
  /\ Len(split.classes) = 2
  /\ exemplars_collide
  /\ \E n \in 1..Len(split.v_bcm) :
       child_rows(split.v_bcm[n]) = 0..(Len(split.real) - 1)

\* When no two exemplars hold the same series, every exemplar is routed
\* to the branch of its own class and every child is strictly smaller.
ChildrenSmallerWithoutCollision ==
  (pc = "split_done" /\ ~exemplars_collide) =>
    \A n \in 1..Len(split.v_bcm) :
      Cardinality(child_rows(split.v_bcm[n])) < Len(split.real)

\* ------------------------------------------------------------------------
\* Properties of the warping window of -d
\* ------------------------------------------------------------------------
\* The command line was parsed with this distance and this token for w.
parsed_window(name, token) ==
  /\ pc = "cli" /\ cli.stage = "parsed" /\ ~cli.exited
  /\ cli.d # NoArg /\ cli.d[1] = name
  /\ cli.d[Len(cli.d)] = token

\* C24: with -d:dtw:<e>:<w>, -d:erp:<e>:<gv>:<w> and -d:lcss:<epsilon>:<w>
\* the distance runs with no window (NO_WINDOW) for a negative w and with
\* the window w for a w that is not negative; for dtw and erp the window
\* recorded in the configuration is -1 when there is no window and w
\* otherwise.
C24_WindowOfTheDistance ==
  \A name \in {"dtw", "erp", "lcss"} :
    /\ parsed_window(name, "-1") =>
          /\ cli.conf.dist_fun = <<NO_WINDOW>>
          /\ name # "lcss" => cli.conf.param_window = <<-1>>
    /\ parsed_window(name, "0") =>
          /\ cli.conf.dist_fun = <<0>>
          /\ name # "lcss" => cli.conf.param_window = <<0>>
    /\ parsed_window(name, "1") =>
          /\ cli.conf.dist_fun = <<1>>
          /\ name # "lcss" => cli.conf.param_window = <<1>>
    /\ (pc = "cli" /\ cli.stage = "parsed" /\ ~cli.exited /\ cli.d[1] = name)
          => cli.d[Len(cli.d)] \in {"-1", "0", "1"}

\* -d:erp with the window 0: the distance runs with the window 0 and the
\* configuration records 0.
C24_Witness ==
  /\ parsed_window("erp", "0")
  /\ cli.conf.dist_fun = <<0>>
  /\ cli.conf.param_window = <<0>>

\* C25: the children returned by generate partition the rows of the
\* incoming map: every row index, the exemplars included, is in exactly one
\* child, once, under its real label, and no child holds another index.
C25_ChildrenPartitionRows ==
  pc = "split_done" =>
    /\ \A q \in 0..(Len(split.real) - 1) :
         \E n \in 1..Len(split.v_bcm) :
           /\ split.real[q + 1] \in DOMAIN split.v_bcm[n]
           /\ Cardinality({x \in 1..Len(split.v_bcm[n][split.real[q + 1]]) :
                             split.v_bcm[n][split.real[q + 1]][x] = q}) = 1
           /\ \A m \in 1..Len(split.v_bcm) : \A l \in DOMAIN split.v_bcm[m] :
                (m # n \/ l # split.real[q + 1]) => q \notin range(split.v_bcm[m][l])
    /\ \A n \in 1..Len(split.v_bcm) :
         child_rows(split.v_bcm[n]) \subseteq 0..(Len(split.real) - 1)

\* Three rows of two classes: an exemplar was sent to the branch of the
\* other class and is filed there under its real label.
C25_Witness ==
  /\ pc = "split_done"
  /\ Len(split.real) = 3
  /\ \E e \in range(split.train_indexset) :
       \E n \in 1..Len(split.v_bcm) :
         /\ split.classes[n] # split.real[e + 1]
         /\ split.real[e + 1] \in DOMAIN split.v_bcm[n]
         /\ e \in range(split.v_bcm[n][split.real[e + 1]])

\* ------------------------------------------------------------------------
\* Properties of the splitter returned with the children
\* ------------------------------------------------------------------------
\* C26: the TestSplitter_1NN returned by generate holds the exemplars, the
\* map from labels to branches, the transformation name and the distance
\* used in training; a test series equal to a training row that had one
\* nearest exemplar goes to the branch that row was sent to in training.
C26_TestRoutesAsTrain ==
  /\ pc \in {"split_done", "split_routed"} =>
       /\ split.splitter.train_indexset = split.train_indexset
       /\ split.splitter.transformation_name = split.transformation_name
       /\ split.splitter.distance = split.distance
       /\ DOMAIN split.splitter.labels_to_index = range(split.classes)
       /\ \A n \in 1..Len(split.classes) :
            split.splitter.labels_to_index[split.classes[n]] = n - 1
  /\ pc = "split_routed" =>
       \A q \in 0..(Len(split.real) - 1) :
         (split.train_dataset[q + 1] = split.test_exemplar /\ Len(split.ties[q + 1]) = 1)
           => split.branch = split.predicted[q + 1]

\* A test series equal to a training row that is no exemplar and had one
\* nearest exemplar, of another class than its own.
C26_Witness ==
  /\ pc = "split_routed"
  /\ \E q \in 0..(Len(split.real) - 1) :
       /\ q \notin range(split.train_indexset)
       /\ split.train_dataset[q + 1] = split.test_exemplar
       /\ Len(split.ties[q + 1]) = 1
       /\ split.ties[q + 1][1] # split.real[q + 1]
       /\ split.branch = split.predicted[q + 1]

\* C27: with at least one exemplar and distances that are numbers or +inf,
\* the labels in a tie are never empty when pick_one draws, the label drawn
\* is a key of labels_to_index and the branch is in [0, number of
\* branches), in training and in get_branch_index, all distances +inf
\* included.
C27_TieListNeverEmpty ==
  /\ pc \in {"split_rows", "split_done", "split_routed"} =>
       \A q \in 1..Len(split.ties) :
         /\ Len(split.ties[q]) >= 1
         /\ range(split.ties[q]) \subseteq range(split.classes)
         /\ split.predicted[q] \in 0..(Len(split.classes) - 1)
  /\ pc = "split_routed" =>
       /\ Len(split.test_labels) >= 1
       /\ range(split.test_labels) \subseteq DOMAIN split.splitter.labels_to_index
       /\ split.branch \in 0..(Len(split.v_bcm) - 1)

\* Every exemplar is at +inf of the test series: the labels of all the
\* classes are in the tie and the branch is one of theirs.
C27_Witness ==
  /\ pc = "split_routed"
  /\ split.test_bsf = PINF
  /\ range(split.test_labels) = range(split.classes)
  /\ split.branch \in 0..(Len(split.v_bcm) - 1)

\* ------------------------------------------------------------------------
\* Properties of the entry of internal::msm and of its buffer
\* ------------------------------------------------------------------------
\* C28: msm calls internal::msm only with 0 < nbcols <= nblines, whatever
\* the lengths of the two series, none of them empty: the assertions at the
\* head of internal::msm hold.
C28_PreconditionsAtEntry ==
  pc = "internal" => precondition(k.nblines, k.nbcols)

\* A call with fewer lines than columns stopped on assert(nbcols<=nblines).
C28_Witness ==
  /\ pc = "aborted"
  /\ 0 < k.nblines /\ k.nblines < k.nbcols

\* msm calls internal::msm with two lengths that are not 0.
EntryLengthsNotZero ==
  pc = "internal" => (k.nblines # 0 /\ k.nbcols # 0)

\* C29: in internal::msm every index into the double buffer is in
\* [0, 2*nbcols), every cell read in the previous row was written during
\* the previous line, and dist_lines is never called with i = 0 nor
\* dist_cols with j = 0, which would read the element before the first.
C29_SafeAccesses ==
  pc \in {"rows", "done"} => (k.in_range /\ k.fresh /\ k.in_series)

\* One line and two columns or more, without assertions: the ub block
\* called dist_lines(0, nbcols - 1).
C29_Witness ==
  /\ pc \in {"rows", "done"}
  /\ k.nblines = 1 /\ k.nbcols >= 2
  /\ ~k.in_series

\* The accesses to the buffer are in range and never stale, whatever the
\* lengths.
BufferAccessesSafe ==
  pc \in {"rows", "done"} => (k.in_range /\ k.fresh)

\* Under the precondition of internal::msm no closure reads the element
\* before the first.
ClosuresInSeriesUnderPrecondition ==
  (pc \in {"rows", "done"} /\ precondition(k.nblines, k.nbcols)) => k.in_series

\* Some row read the cells of the previous row from a column on that is
\* not the first, up to the last column.
StaleCellsAreSkipped ==
  /\ pc = "rows" /\ k.i >= 3
  /\ k.next_start >= 1
  /\ \E x \in DOMAIN k.stamp : k.stamp[x] < k.i - 2

\* The values a call of internal::msm on an empty buffer can return.
fresh_buffer_results ==
  {main_loop(env, first_line(env, kernel_entry(k.nblines, k.nbcols, k.cutoff, ub))).ret :
     ub \in ub_outcomes(env, k.nblines, k.nbcols, k.cutoff)}

\* C30: the value msm returns does not depend on the size nor on the
\* contents of the scratch buffer it is given, it is the value of a call on
\* a fresh buffer; after a call on series that are not empty the buffer
\* holds 2*nbcols entries.
C30_ScratchBufferIndependent ==
  (pc = "done" /\ k.nbcols # 0 /\ k.nblines # 0) =>
    /\ k.ret \in fresh_buffer_results
    /\ DOMAIN k.buffer = 0..(2 * k.nbcols - 1)

\* The first line of a call of three lines and two columns is done on a
\* buffer that came with other values and more than 2*nbcols entries: it
\* holds 2*nbcols entries, the first line and zeros.
C30_Witness ==
  /\ pc = "rows" /\ k.i = 1
  /\ k.nblines = 3 /\ k.nbcols = 2
  /\ Cardinality(DOMAIN k.buffer_v0) > 2 * k.nbcols
  /\ \A x \in DOMAIN k.buffer_v0 : k.buffer_v0[x] # 0
  /\ DOMAIN k.buffer = 0..(2 * k.nbcols - 1)
  /\ \A x \in k.nbcols..(2 * k.nbcols - 1) : k.buffer[x] = 0

====
